---- MODULE Spec2Model ----
(***************************************************************************)
(* State-machine model of the torchdynamo execution bridge                 *)
(* (openvino/frontend/pytorch/torchdynamo/execute.py): the partition       *)
(* cache, the compiled-artifact cache, the partition counter and the       *)
(* per-partition executors with their one-way fallback flag; and of the    *)
(* runtime binding (openvino/runtime/ie_api.py): CompiledModel,            *)
(* InferRequest and AsyncInferQueue.                                       *)
(*                                                                         *)
(* Python objects are modelled by identity: a graph module is one of the   *)
(* names in Graphs, an OpenVINOGraphModule is an index into the heap       *)
(* `executors`.  The native runtime (openvino_compile, the compiled        *)
(* artifact) and the original fused sub-graphs are external: whether they  *)
(* raise is chosen per call by an oracle.                                  *)
(*                                                                         *)
(* Specifications: Spec (sequential calls of execute and clear_caches),    *)
(* SpecConcurrent (two callers, one statement at a time), SpecPartition    *)
(* (partition_graph on its own), SpecAdapter (the result conversion of     *)
(* openvino_execute), SpecBinding (CompiledModel and InferRequest of       *)
(* ie_api.py), SpecQueue (AsyncInferQueue.start_async, one statement at a  *)
(* time for two callers), SpecSharing (the sharing arguments of the        *)
(* binding's methods) and SpecSignature (the signature of                  *)
(* openvino_execute_partitioned for two calls).                            *)
(***************************************************************************)
EXTENDS Integers, Sequences, FiniteSets, TLC

\* ------------------------------------------------------------------ bounds
\* Largest value the partition counter may reach (guard of partition_graph).
MaxPartitions == 2

\* ------------------------------------------------------- python values
\* A dict of executor parameters; "absent" marks a missing key, the field
\* `none` marks the Python value None passed instead of a dict.
Absent == "absent"

NoneParams == [none |-> TRUE, use_python_fusion_cache |-> Absent, model_hash_str |-> Absent]
CustomParams == [none |-> FALSE, use_python_fusion_cache |-> "False", model_hash_str |-> "h"]

\* The executor_parameters values a caller passes.
ParamChoices == {NoneParams, CustomParams}

DEFAULT_OPENVINO_PYTHON_CONFIG ==
    [none |-> FALSE, use_python_fusion_cache |-> "True", model_hash_str |-> Absent]

\* `executor_parameters or DEFAULT_OPENVINO_PYTHON_CONFIG`: None and the
\* empty dict are falsy.
OrDefault(p) ==
    IF p.none \/ (p.use_python_fusion_cache = Absent /\ p.model_hash_str = Absent)
    THEN DEFAULT_OPENVINO_PYTHON_CONFIG
    ELSE p

\* dict.get(key, default) for the two keys the code reads.
GetUseCache(p) ==
    IF p.use_python_fusion_cache = Absent
    THEN DEFAULT_OPENVINO_PYTHON_CONFIG.use_python_fusion_cache
    ELSE p.use_python_fusion_cache

GetModelHash(p) ==
    IF p.model_hash_str = Absent THEN "None" ELSE p.model_hash_str

\* Python truthiness of the values use_python_fusion_cache takes here.
Truthy(v) == v = "True"

\* ------------------------------------------------------------ arguments
\* A torch.Tensor: str(t.type()) is "torch." followed by the tensor class.
Tensor(shape) == [kind |-> "tensor", type |-> <<"torch.", "FloatTensor">>, size |-> shape, val |-> 0]
\* A Python int: type(v).__name__ is "int".
Scalar(v) == [kind |-> "int", type |-> <<"int">>, size |-> <<>>, val |-> v]
\* A Python str: type(v).__name__ is "str", v is its text.
Str(v) == [kind |-> "str", type |-> <<"str">>, size |-> <<>>, val |-> v]

ShapeA == <<1, 3, 224, 224>>
ShapeB == <<1, 3, 112, 112>>

ArgsA == <<Tensor(ShapeA)>>
ArgsB == <<Tensor(ShapeB)>>
ArgsS == <<Tensor(ShapeA), Scalar(1)>>


\* ---------------------------------------------------------------- graphs
\* A node name is a sequence of name fragments; "fused_" is the marker the
\* upstream fusion pass puts into the names of fused sub-modules.
Node(op, name) == [op |-> op, name |-> name, target |-> name]

Graphs == {"G1", "G2", "G3"}

\* gm.graph.nodes, in graph order.
Nodes(g) ==
    IF g = "G1"
    THEN << Node("placeholder", <<"x">>),
            Node("call_module", <<"fused_", "0">>),
            Node("output", <<"output">>) >>
    ELSE IF g = "G2"
    THEN << Node("placeholder", <<"fused_", "in">>),
            Node("call_module", <<"fused_", "0">>),
            Node("call_module", <<"conv">>),
            Node("call_module", <<"fused_", "1">>),
            Node("output", <<"output">>) >>
    ELSE << Node("placeholder", <<"x">>),
            Node("call_module", <<"conv">>),
            Node("call_function", <<"fused_", "add">>),
            Node("output", <<"output">>) >>

\* id(gm): distinct live objects have distinct ids.
Id(g) == IF g = "G1" THEN 140001 ELSE IF g = "G2" THEN 140002 ELSE 140003

\* The calls a caller makes: a graph module with an argument list.
CallChoices == {<<"G1", ArgsA>>, <<"G1", ArgsB>>, <<"G1", ArgsS>>, <<"G2", ArgsA>>}

\* The sub-modules a graph module owns (targets of its call_module nodes).
Targets(g) == { Nodes(g)[i].target : i \in { j \in 1..Len(Nodes(g)) : Nodes(g)[j].op = "call_module" } }

\* A reference to a callable module: an original sub-module of a graph
\* (kind "raw") or an OpenVINOGraphModule on the heap (kind "ov").
Raw(g, target) == [kind |-> "raw", g |-> g, target |-> target, ref |-> 0]
Ov(e) == [kind |-> "ov", g |-> "", target |-> <<>>, ref |-> e]

\* `"fused_" in node.name`
ContainsFused(name) == \E i \in 1..Len(name) : name[i] = "fused_"

IsFusedNode_any_module(node) == node.op = "call_module"
\* The test of partition_graph's loop.
IsFusedNode(node) == node.op = "call_module" /\ ContainsFused(node.name)

NumFused(g) == Cardinality({ i \in 1..Len(Nodes(g)) : IsFusedNode(Nodes(g)[i]) })

\* ------------------------------------------------------------- signature
\* A str is written as the sequence of text fragments it is concatenated
\* from, and Text joins the fragments to the str itself; str(n) of an
\* integer is ToString.  The signature is the joined str: two calls whose
\* fragments differ but whose text is the same have the same signature.
RECURSIVE JoinInts(_)
\* "1,3,224,224" for <<1, 3, 224, 224>>: the elements separated by ",".
JoinInts(s) ==
    IF Len(s) = 0 THEN <<>>
    ELSE IF Len(s) = 1 THEN <<ToString(s[1])>>
    ELSE <<ToString(s[1]), ",">> \o JoinInts(Tail(s))

\* str(input_data.size())[11:-1].replace(" ", ""): "torch.Size([1, 3])"
\* without its first 11 characters "torch.Size(" and its last ")", blanks
\* removed.
SizeText(shape) == <<"[">> \o JoinInts(shape) \o <<"]">>

\* str(input_data.type())[6:]: the type text without "torch.".
TypeText(t) == Tail(t)

\* str(input_data) of a non-tensor argument: a str is its own text.
ValText(a) == IF a.kind = "str" THEN a.val ELSE ToString(a.val)

\* The text one argument adds to the signature.
ArgText(idx, a) ==
    IF a.kind = "tensor"
    THEN <<"_", ToString(idx), ":">> \o TypeText(a.type) \o <<":">> \o SizeText(a.size)
    ELSE <<"_", ToString(idx), ":">> \o a.type \o <<":val(", ValText(a), ")">>

RECURSIVE SignatureFrom(_, _, _)
SignatureFrom(sig, args, idx) ==
    IF idx >= Len(args) THEN sig
    ELSE SignatureFrom(sig \o ArgText(idx, args[idx + 1]), args, idx + 1)

RECURSIVE Text(_)
\* The str the fragments make when joined by +.
Text(frags) == IF Len(frags) = 0 THEN "" ELSE frags[1] \o Text(Tail(frags))

\* The signature openvino_execute_partitioned computes for (gm, args): the
\* str that is the key of partitioned_modules.
Signature(g, args) == Text(SignatureFrom(<<ToString(Id(g))>>, args, 0))

\* ------------------------------------------------- results, errors, log
\* What a call produced: a native result (by "ov": the artifact's output for
\* the arguments) or the original sub-graph's result (by "gm").
NoRes == [by |-> "none", pid |-> -1, mod |-> Raw("", <<>>)]
NativeResult(compiled, args, pid) == [by |-> "ov", pid |-> pid, mod |-> compiled.gm]
GmResult(m, args) == [by |-> "gm", pid |-> -1, mod |-> m]

\* How a call ended: it returned `res` or raised the exception `err`.
NoOut == [kind |-> "none", err |-> "", res |-> NoRes]
Ret(r) == [kind |-> "ret", err |-> "", res |-> r]
Raise(err) == [kind |-> "raise", err |-> err, res |-> NoRes]

\* One observable step of a call: ev names it, e is the executor (heap
\* index, 0 when none), pid the partition identifier (-1 when none), out the
\* way an executor call ended (on "exit" events).
Ev(ev, e, pid) == [ev |-> ev, e |-> e, pid |-> pid, out |-> NoOut]
ExitEv(e, pid, out) == [ev |-> "exit", e |-> e, pid |-> pid, out |-> out]

\* The events of a log that satisfy Test.
Has(log, ev) == \E i \in 1..Len(log) : log[i].ev = ev
HasFor(log, ev, pid) == \E i \in 1..Len(log) : log[i].ev = ev /\ log[i].pid = pid

\* ------------------------------------------------------ compiled artifacts
\* What openvino_compile(gm, *args, model_hash_str=...) returns: the artifact
\* of the module gm, labelled with the hash string.
Artifact(gm, args, model_hash_str) == [gm |-> gm, model_hash_str |-> model_hash_str]

\* d[k] = v on a dict.
Put(d, k, v) == [x \in (DOMAIN d) \cup {k} |-> IF x = k THEN v ELSE d[x]]

\* The empty dict.
EmptyDict == [x \in {} |-> 0]

StoreCompiled_skip(cc, partition_id, compiled) == cc
\* `compiled_cache[partition_id] = compiled`, right after openvino_compile
\* returned.
StoreCompiled(cc, partition_id, compiled) == Put(cc, partition_id, compiled)

UseCompiled_never(use_cache, partition_id, cc) == FALSE
\* `use_cache and (partition_id in compiled_cache)`
UseCompiled(use_cache, partition_id, cc) ==
    Truthy(use_cache) /\ partition_id \in DOMAIN cc

\* openvino_execute(gm, *args, executor_parameters, partition_id) on the
\* artifact cache cc; orc tells which external calls raise.
openvino_execute(gm, args, executor_parameters, partition_id, cc, orc) ==
    LET ep == OrDefault(executor_parameters)
        use_cache == GetUseCache(ep)
        hash0 == GetModelHash(ep)
        model_hash_str == IF hash0 # "None" THEN <<hash0, ToString(partition_id)>> ELSE <<>>
        hit == UseCompiled(use_cache, partition_id, cc)
        compiled == IF hit THEN cc[partition_id] ELSE Artifact(gm, args, model_hash_str)
        cc1 == IF hit THEN cc ELSE StoreCompiled(cc, partition_id, compiled)
        log1 == IF hit THEN <<Ev("cache_hit", 0, partition_id)>>
                       ELSE <<Ev("compile", 0, partition_id)>>
    IN  IF ~hit /\ orc.native[partition_id] = "compile_raise"
        THEN [cc |-> cc,
              log |-> <<Ev("compile", 0, partition_id), Ev("compile_raise", 0, partition_id)>>,
              out |-> Raise("CompileError")]
        ELSE IF \E i \in 1..Len(args) : args[i].kind # "tensor"
        THEN [cc |-> cc1,
              log |-> log1 \o <<Ev("convert_raise", 0, partition_id)>>,
              out |-> Raise("AttributeError")]
        ELSE IF orc.native[partition_id] = "invoke_raise"
        THEN [cc |-> cc1,
              log |-> log1 \o <<Ev("invoke", 0, partition_id), Ev("invoke_raise", 0, partition_id)>>,
              out |-> Raise("RuntimeError")]
        ELSE [cc |-> cc1,
              log |-> log1 \o <<Ev("invoke", 0, partition_id)>>,
              out |-> Ret(NativeResult(compiled, args, partition_id))]

\* ------------------------------------------------------------- executors
NewExecutor_in_fallback(gm, partition_id, use_python_fusion_cache, model_hash_str) ==
    [gm |-> gm,
     partition_id |-> partition_id,
     executor_parameters |-> [none |-> FALSE,
                              use_python_fusion_cache |-> use_python_fusion_cache,
                              model_hash_str |-> model_hash_str],
     perm_fallback |-> TRUE]
NewExecutor_default_config(gm, partition_id, use_python_fusion_cache, model_hash_str) ==
    [gm |-> gm,
     partition_id |-> partition_id,
     executor_parameters |-> [none |-> FALSE,
                              use_python_fusion_cache |-> GetUseCache(DEFAULT_OPENVINO_PYTHON_CONFIG),
                              model_hash_str |-> GetModelHash(DEFAULT_OPENVINO_PYTHON_CONFIG)],
     perm_fallback |-> FALSE]
\* OpenVINOGraphModule.__init__
NewExecutor(gm, partition_id, use_python_fusion_cache, model_hash_str) ==
    [gm |-> gm,
     partition_id |-> partition_id,
     executor_parameters |-> [none |-> FALSE,
                              use_python_fusion_cache |-> use_python_fusion_cache,
                              model_hash_str |-> model_hash_str],
     perm_fallback |-> FALSE]

SetFallback_skip(self) == self
\* `self.perm_fallback = True`
SetFallback(self) == [self EXCEPT !.perm_fallback = TRUE]

Caught_none(err) == FALSE
\* `except Exception`: every exception the native path raises here is an
\* Exception.
Caught(err) == err \in {"CompileError", "AttributeError", "RuntimeError"}

\* The log of openvino_execute, attributed to the executor e that called it.
Tag(log, e) == [i \in 1..Len(log) |-> [log[i] EXCEPT !.e = e]]

\* The original sub-module m called with args.
RawCall(m, args, cc, ex, orc) ==
    IF m \in orc.gm_raise
    THEN [cc |-> cc, ex |-> ex, log |-> <<Ev("gm", 0, -1), Ev("gm_raise", 0, -1)>>, out |-> Raise("GmError")]
    ELSE [cc |-> cc, ex |-> ex, log |-> <<Ev("gm", 0, -1)>>, out |-> Ret(GmResult(m, args))]

RECURSIVE CallModule(_, _, _, _, _)
RECURSIVE OVCall(_, _, _, _, _)

\* OpenVINOGraphModule.__call__ of the executor e.
OVCall(e, args, cc, ex, orc) ==
    LET self == ex[e]
    IN  IF self.perm_fallback
        THEN LET r == CallModule(self.gm, args, cc, ex, orc)
             IN  [cc |-> r.cc, ex |-> r.ex,
                  log |-> <<Ev("call_fallback", e, self.partition_id)>> \o r.log
                          \o <<ExitEv(e, self.partition_id, r.out)>>,
                  out |-> r.out]
        ELSE LET a == openvino_execute(self.gm, args, self.executor_parameters,
                                       self.partition_id, cc, orc)
             IN  IF a.out.kind = "raise" /\ Caught(a.out.err)
                 THEN LET ex1 == [ex EXCEPT ![e] = SetFallback(self)]
                          r == CallModule(self.gm, args, a.cc, ex1, orc)
                      IN  [cc |-> r.cc, ex |-> r.ex,
                           log |-> <<Ev("call_native", e, self.partition_id)>> \o Tag(a.log, e)
                                   \o <<Ev("except", e, self.partition_id)>> \o r.log
                                   \o <<ExitEv(e, self.partition_id, r.out)>>,
                           out |-> r.out]
                 ELSE [cc |-> a.cc, ex |-> ex,
                       log |-> <<Ev("call_native", e, self.partition_id)>> \o Tag(a.log, e)
                               \o <<ExitEv(e, self.partition_id, a.out)>>,
                       out |-> a.out]

\* m(*args) for a module reference m.
CallModule(m, args, cc, ex, orc) ==
    IF m.kind = "ov" THEN OVCall(m.ref, args, cc, ex, orc)
    ELSE RawCall(m, args, cc, ex, orc)

\* ---------------------------------------------------------- graph forward
\* How a top-level call ended: results holds what each call_module node
\* of the graph returned, in graph order.
TopRet(results) == [kind |-> "ret", err |-> "", res |-> results]
TopRaise(err) == [kind |-> "raise", err |-> err, res |-> <<>>]

RECURSIVE RunNodes(_, _, _, _, _, _, _, _, _)
\* GraphModule.forward from node i on: each call_module node calls the
\* sub-module registered under its target; an exception ends the run.
RunNodes(nodes, i, args, cc, ex, sub, orc, log, results) ==
    IF i > Len(nodes)
    THEN [cc |-> cc, ex |-> ex, log |-> log, out |-> TopRet(results)]
    ELSE IF nodes[i].op # "call_module"
    THEN RunNodes(nodes, i + 1, args, cc, ex, sub, orc, log, results)
    ELSE LET r == CallModule(sub[nodes[i].target], args, cc, ex, orc)
         IN  IF r.out.kind = "raise"
             THEN [cc |-> r.cc, ex |-> r.ex, log |-> log \o r.log, out |-> TopRaise(r.out.err)]
             ELSE RunNodes(nodes, i + 1, args, r.cc, r.ex, sub, orc,
                           log \o r.log, Append(results, r.out.res))

\* gm(*args) for the graph module g whose sub-modules are sub.
GraphForward(g, args, cc, ex, sub, orc) ==
    RunNodes(Nodes(g), 1, args, cc, ex, sub, orc, <<>>, <<>>)

\* ------------------------------------------------------- partition_graph
FirstPartitionId_zero(mx) == 0
\* `partition_id = max_openvino_partitions`
FirstPartitionId(mx) == mx

NextPartitionId_same(partition_id) == partition_id
\* `partition_id = partition_id + 1`
NextPartitionId(partition_id) == partition_id + 1

RECURSIVE PartitionLoop(_, _, _, _, _, _, _)
\* The loop of partition_graph from node i on: a fused node's sub-module
\* (read under node.name) is replaced, under node.target, by a new
\* executor wrapping it.
PartitionLoop(nodes, i, partition_id, use_python_fusion_cache, model_hash_str, sub, ex) ==
    IF i > Len(nodes)
    THEN [sub |-> sub, ex |-> ex, partition_id |-> partition_id]
    ELSE IF IsFusedNode(nodes[i])
    THEN LET openvino_submodule == sub[nodes[i].name]
             ex1 == Append(ex, NewExecutor(openvino_submodule, partition_id,
                                           use_python_fusion_cache, model_hash_str))
             sub1 == [sub EXCEPT ![nodes[i].target] = Ov(Len(ex1))]
         IN  PartitionLoop(nodes, i + 1, NextPartitionId(partition_id),
                           use_python_fusion_cache, model_hash_str, sub1, ex1)
    ELSE PartitionLoop(nodes, i + 1, partition_id,
                       use_python_fusion_cache, model_hash_str, sub, ex)

\* partition_graph(gm, use_python_fusion_cache, model_hash_str): mutates the
\* graph g in place, allocates the executors and advances the counter.
partition_graph(g, use_python_fusion_cache, model_hash_str, subs, ex, mx) ==
    LET r == PartitionLoop(Nodes(g), 1, FirstPartitionId(mx),
                           use_python_fusion_cache, model_hash_str, subs[g], ex)
    IN  [subs |-> [subs EXCEPT ![g] = r.sub], ex |-> r.ex, mx |-> r.partition_id]

CacheMiss_always(signature, pm) == TRUE
\* `signature not in partitioned_modules`
CacheMiss(signature, pm) == signature \notin DOMAIN pm

\* openvino_execute_partitioned up to the cache lookup: the signature and,
\* on a miss, the partitioning stored under it.
PartitionStage(g, args, executor_parameters, pm, subs, ex, mx) ==
    LET ep == OrDefault(executor_parameters)
        use_python_fusion_cache == GetUseCache(ep)
        model_hash_str == GetModelHash(ep)
        signature == Signature(g, args)
        miss == CacheMiss(signature, pm)
        p == IF miss
             THEN partition_graph(g, use_python_fusion_cache, model_hash_str, subs, ex, mx)
             ELSE [subs |-> subs, ex |-> ex, mx |-> mx]
    IN  [signature |-> signature, miss |-> miss,
         pm |-> IF miss THEN Put(pm, signature, g) ELSE pm,
         subs |-> p.subs, ex |-> p.ex, mx |-> p.mx]

\* clear_caches(): what the two dicts hold afterwards.
clear_caches_keep_compiled(cc, pm) == [cc |-> cc, pm |-> EmptyDict]
clear_caches(cc, pm) == [cc |-> EmptyDict, pm |-> EmptyDict]

\* execute(): where the value of `executor` sends the call.
ExecutorMode_lenient(executor) ==
    IF executor = "strictly_openvino" THEN "strict" ELSE "partitioned"
ExecutorMode(executor) ==
    IF executor = "openvino" THEN "partitioned"
    ELSE IF executor = "strictly_openvino" THEN "strict"
    ELSE "rejected"

\* The values of `executor` a caller passes ("aten" is the default).
ExecutorChoices == {"aten", "openvino", "strictly_openvino"}

\* ------------------------------------------------------------ the oracle
\* What the external calls do during one call: per partition identifier
\* whether openvino_compile or the artifact invocation raises, and the set
\* of original sub-modules that raise, which is any subset of them.
NativeOutcomes == {"ok", "compile_raise", "invoke_raise"}

RECURSIVE ChainExecutors(_, _)
\* The executors reached from module m, outermost first.
ChainExecutors(m, ex) ==
    IF m.kind = "ov"
    THEN {m.ref} \cup ChainExecutors(ex[m.ref].gm, ex)
    ELSE {}

GraphExecutors(g, subs, ex) == UNION { ChainExecutors(subs[g][t], ex) : t \in Targets(g) }
GraphRaws(g, subs, ex) == { Raw(g, t) : t \in Targets(g) }

\* The outcomes that make a difference for the executor e in the state
\* (cc, ex): none when it is in fallback (it makes no native attempt), no
\* compilation failure when it will find its artifact in the cache.
OutcomesFor(e, cc, ex) ==
    IF ex[e].perm_fallback THEN {"ok"}
    ELSE IF UseCompiled(GetUseCache(OrDefault(ex[e].executor_parameters)), ex[e].partition_id, cc)
    THEN {"ok", "invoke_raise"}
    ELSE NativeOutcomes

\* The oracles for a call that can reach the executors es and the original
\* sub-modules raws: `native` is indexed by partition identifier.
Oracles(es, raws, cc, ex) ==
    { [native |-> [pid \in { ex[e].partition_id : e \in es } |->
                      f[CHOOSE e \in es : ex[e].partition_id = pid]],
       gm_raise |-> gr] :
      f \in { h \in [es -> NativeOutcomes] : \A e \in es : h[e] \in OutcomesFor(e, cc, ex) },
      gr \in SUBSET raws }

\* ------------------------------------------------------------------ state
VARIABLES
    compiled_cache,           \* partition identifier -> compiled artifact
    max_openvino_partitions,  \* the process-wide partition counter
    partitioned_modules,      \* signature -> partitioned graph module
    submodules,               \* graph -> target -> the sub-module registered there
    executors,                \* the OpenVINOGraphModule objects, in creation order
    last,                     \* the last operation: its log and outcome
    raised,                   \* history: executors one of whose native attempts raised
    seen,                     \* history: signature -> graph stored by its first call since
                              \* the last clear_caches
    cleared,                  \* history: signatures dropped by clear_caches, not called since
    threads,                  \* concurrent callers: where each one is in its call, and its locals
    outputs,                  \* openvino_execute: compiled.outputs, the artifact's declared outputs
    res,                      \* openvino_execute: what compiled(ov_inputs) returned, per output
    returned,                 \* openvino_execute: the value it returned
    infer_request,            \* CompiledModel object -> its _infer_request (None or a request)
    created,                  \* the number of InferRequest objects created so far
    requests,                 \* the InferRequest objects the user holds -> idle or running
    pool,                     \* AsyncInferQueue: request id -> idle or running
    idle_ids,                 \* AsyncInferQueue: the ids of its idle requests, oldest first
    starters,                 \* AsyncInferQueue.start_async: where each caller is, and its locals
    call,                     \* the last call into the binding: arguments and effect
    asked,                    \* a call of a method that takes share_inputs and shared_memory
    calls,                    \* two calls of openvino_execute_partitioned: (gm, args) each
    signatures                \* the signature each of the two calls computed

\* The state of the sequential model and its history.
cacheVars == <<compiled_cache, max_openvino_partitions, partitioned_modules, submodules,
               executors, last, raised, seen, cleared>>

\* The state only the concurrent model changes.
threadVars == <<threads>>

\* The state of the result conversion at the end of openvino_execute.
adapterVars == <<outputs, res, returned>>

\* The state of the runtime binding (ie_api.py).
bindingVars == <<infer_request, created, requests, pool, idle_ids, starters, call, asked>>

\* The state of the signature computation of openvino_execute_partitioned.
signatureVars == <<calls, signatures>>

vars == <<cacheVars, threadVars, adapterVars, bindingVars, signatureVars>>

\* What the sequential model leaves alone.
outsideCaches == <<threadVars, adapterVars, bindingVars, signatureVars>>

\* What the concurrent model leaves alone.
outsideThreads == <<adapterVars, bindingVars, signatureVars>>

\* The callers of the concurrent model.
Threads == {1, 2}

\* No artifact: the value of a local `compiled` not yet assigned.
NoArtifact == [gm |-> Raw("", <<>>), model_hash_str |-> <<>>]

\* A caller that is not inside a call.
IdleThread ==
    [pc |-> "idle", g |-> "", args |-> <<>>, signature |-> "",
     partition_id |-> 0, i |-> 0, e |-> 0, compiled |-> NoArtifact]

\* What `last` holds: the operation, the signature it computed, the graph
\* module it ran, its log and its outcome.
Op(op, executor, sig, callee, log, out) ==
    [op |-> op, executor |-> executor, sig |-> sig, callee |-> callee, log |-> log, out |-> out]

\* The executors whose native attempt raised in a log.
RaisedIn(log) == { log[i].e : i \in { j \in 1..Len(log) : log[j].ev = "except" } }

\* The module state right after import: empty dicts, counter 0, no graph
\* partitioned yet.
CachesInit ==
    /\ compiled_cache = EmptyDict
    /\ max_openvino_partitions = 0
    /\ partitioned_modules = EmptyDict
    /\ submodules = [g \in Graphs |-> [t \in Targets(g) |-> Raw(g, t)]]
    /\ executors = <<>>
    /\ last = Op("init", "", "", "", <<>>, TopRet(<<>>))
    /\ raised = {}
    /\ seen = EmptyDict
    /\ cleared = {}

\* No caller is inside a call.
ThreadsInit == threads = [t \in Threads |-> IdleThread]

\* The value of `returned` before openvino_execute has returned.
NotReturned == [is_list |-> FALSE, items |-> <<>>]

\* No result conversion is under way.
AdapterIdle ==
    /\ outputs = <<>>
    /\ res = EmptyDict
    /\ returned = NotReturned

\* Python's None, where a request is expected.
None == 0

\* The CompiledModel objects.
Models == {"cm1", "cm2"}

\* Requests in an AsyncInferQueue (its `jobs` argument).
PoolSize == 2

\* The ids of the queue's requests, as self[i] numbers them.
PoolIds == 0..(PoolSize - 1)

\* The callers of AsyncInferQueue.start_async: threads of the user, or
\* completion callbacks that start the next job.
Starters == {1, 2}

\* A caller that is not inside AsyncInferQueue.start_async.
NotStarting ==
    [pc |-> "idle", id |-> None, share_inputs |-> "absent", shared_memory |-> "None"]

\* No call is being asked for.
NotAsked ==
    [method |-> "", target |-> "", request |-> None,
     share_inputs |-> "absent", shared_memory |-> "None"]

\* No call into the binding yet.
NoCall ==
    [op |-> "none", target |-> "", request |-> None, started |-> None, created |-> FALSE,
     share_inputs |-> "absent", shared_memory |-> "None", is_shared |-> "False", warnings |-> 0]

\* The binding after construction: CompiledModel.__init__ sets
\* _infer_request to None; a new AsyncInferQueue has all its requests idle.
BindingInit ==
    /\ infer_request = [cm \in Models |-> None]
    /\ created = 0
    /\ requests = EmptyDict
    /\ pool = [id \in PoolIds |-> "idle"]
    /\ idle_ids = [k \in 1..PoolSize |-> k - 1]
    /\ starters = [k \in Starters |-> NotStarting]
    /\ asked = NotAsked
    /\ call = NoCall

\* The value of a signature not computed yet.
NoSignature == [computed |-> FALSE, text |-> ""]

\* No signature computation is under way.
SignatureIdle ==
    /\ calls = <<>>
    /\ signatures = <<NoSignature, NoSignature>>

Init == CachesInit /\ ThreadsInit /\ AdapterIdle /\ BindingInit /\ SignatureIdle

\* openvino_execute_partitioned(gm, *args, executor_parameters=params), as
\* execute(executor="openvino") calls it.  st is the state after lines
\* 134-153 and r the run of line 154; each is bound once per step.
OpenvinoExecutePartitioned(g, args, executor, params) ==
    \E st \in {PartitionStage(g, args, params, partitioned_modules, submodules,
                              executors, max_openvino_partitions)} :
        /\ st.mx <= MaxPartitions
        /\ \E orc \in Oracles(GraphExecutors(g, st.subs, st.ex), GraphRaws(g, st.subs, st.ex),
                                compiled_cache, st.ex) :
           \E r \in {GraphForward(st.pm[st.signature], args, compiled_cache, st.ex,
                                   st.subs[st.pm[st.signature]], orc)} :
              LET callee == st.pm[st.signature]
                  log == (IF st.miss THEN <<Ev("partition_graph", 0, -1)>> ELSE <<>>) \o r.log
              IN  /\ compiled_cache' = r.cc
                  /\ max_openvino_partitions' = st.mx
                  /\ partitioned_modules' = st.pm
                  /\ submodules' = st.subs
                  /\ executors' = r.ex
                  /\ last' = Op("openvino_execute_partitioned", executor, st.signature,
                                callee, log, r.out)
                  /\ raised' = raised \cup RaisedIn(log)
                  /\ seen' = IF st.signature \in DOMAIN seen THEN seen
                              ELSE Put(seen, st.signature, callee)
                  /\ cleared' = cleared \ {st.signature}
                  /\ UNCHANGED outsideCaches

\* A call of execute() that raises err before it touches any state.
Rejected(executor, err) ==
    /\ last' = Op("execute", executor, "", "", <<>>, TopRaise(err))
    /\ UNCHANGED <<compiled_cache, max_openvino_partitions, partitioned_modules,
                   submodules, executors, raised, seen, cleared>>
    /\ UNCHANGED outsideCaches

\* execute(gm, *args, executor=executor, executor_parameters=params).  The
\* "strictly_openvino" branch calls openvino_execute without the required
\* keyword-only argument partition_id, so the call raises TypeError before
\* the body of openvino_execute runs.
Execute(g, args, executor, params) ==
    IF ExecutorMode(executor) = "partitioned"
    THEN OpenvinoExecutePartitioned(g, args, executor, params)
    ELSE IF ExecutorMode(executor) = "strict"
    THEN Rejected(executor, "TypeError")
    ELSE Rejected(executor, "ValueError")

\* clear_caches()
ClearCaches ==
    LET c == clear_caches(compiled_cache, partitioned_modules)
    IN  /\ compiled_cache' = c.cc
        /\ partitioned_modules' = c.pm
        /\ last' = Op("clear_caches", "", "", "", <<>>, TopRet(<<>>))
        /\ seen' = EmptyDict
        /\ cleared' = cleared \cup DOMAIN seen
        /\ UNCHANGED <<max_openvino_partitions, submodules, executors, raised>>
        /\ UNCHANGED outsideCaches

Next ==
    \/ \E c \in CallChoices, executor \in ExecutorChoices, params \in ParamChoices :
          Execute(c[1], c[2], executor, params)
    \/ ClearCaches

Spec == Init /\ [][Next]_vars

\* -------------------------------------------------------------- properties
\* The step just taken is a call of openvino_execute_partitioned.
IsPartitionedCall(l) == l.op = "openvino_execute_partitioned"

\* Events of a native attempt (openvino_execute running for an executor).
NativeEvents == {"call_native", "compile", "compile_raise", "cache_hit", "convert_raise",
                 "invoke", "invoke_raise", "except"}

\* In log, the event right after position i starts the call of module m.
StartsModule(log, i, m) ==
    /\ i + 1 <= Len(log)
    /\ IF m.kind = "ov"
       THEN log[i + 1].e = m.ref /\ log[i + 1].ev \in {"call_native", "call_fallback"}
       ELSE log[i + 1].ev = "gm"

\* C1: once a native attempt of an executor has raised, every later call to
\* that executor runs its original sub-graph self.gm and makes no native
\* attempt of its own (no compile, no artifact invocation, no access to
\* compiled_cache under its partition identifier); perm_fallback never goes
\* back from True to False, in any operation, clear_caches included.
C1_FallbackIsTerminal ==
    [][ /\ \A i \in 1..Len(last'.log) :
             last'.log[i].e \in raised =>
                /\ last'.log[i].ev \notin NativeEvents
                /\ last'.log[i].ev = "call_fallback" =>
                      StartsModule(last'.log, i, executors[last'.log[i].e].gm)
        /\ \A i \in 1..Len(last'.log) :
             last'.log[i].ev \in NativeEvents =>
                 \A e \in raised : executors[e].partition_id # last'.log[i].pid
        /\ \A e \in 1..Len(executors) :
             executors[e].perm_fallback =>
                 (e <= Len(executors') /\ executors'[e].perm_fallback)
      ]_vars

\* C1 witness: an executor whose native attempt raised earlier has been
\* called again and ran its original sub-graph.
C1_Witness ==
    \E i \in 1..Len(last.log) :
        /\ last.log[i].ev = "call_fallback"
        /\ last.log[i].e \in raised
        /\ executors[last.log[i].e].perm_fallback

\* C2: a second call with the same (graph, signature), with no clear_caches
\* in between, gets from partitioned_modules the graph object the first call
\* stored, does not run partition_graph and leaves max_openvino_partitions
\* unchanged.
C2_SecondCallHitsPartitionCache ==
    [][ (IsPartitionedCall(last') /\ last'.sig \in DOMAIN seen) =>
            /\ ~Has(last'.log, "partition_graph")
            /\ last'.sig \in DOMAIN partitioned_modules
            /\ last'.callee = seen[last'.sig]
            /\ last'.callee = partitioned_modules[last'.sig]
            /\ partitioned_modules' = partitioned_modules
            /\ max_openvino_partitions' = max_openvino_partitions
            /\ Len(executors') = Len(executors)
      ]_vars

\* C2 witness: a call found its signature in the partition cache and ran the
\* stored graph, after at least one partitioning.
C2_Witness ==
    /\ IsPartitionedCall(last)
    /\ ~Has(last.log, "partition_graph")
    /\ last.callee = partitioned_modules[last.sig]
    /\ max_openvino_partitions > 0

\* The executor e keeps compiled artifacts for reuse.
UsesCache(e, ex) == Truthy(ex[e].executor_parameters.use_python_fusion_cache)

\* C3 as stated: once compiled_cache holds an entry for P, no later
\* openvino_execute call with P (until clear_caches) invokes openvino_compile.
C3_NoRecompileOnceCached ==
    [][ \A i \in 1..Len(last'.log) :
            last'.log[i].ev = "compile" => last'.log[i].pid \notin DOMAIN compiled_cache
      ]_vars

\* C3 amended: for a partition identifier P whose executor was created with
\* use_python_fusion_cache enabled, once compiled_cache holds an entry for P
\* no later openvino_execute call with P (until clear_caches) invokes
\* openvino_compile.
C3_NoRecompileWhenCacheEnabled ==
    [][ \A i \in 1..Len(last'.log) :
            (last'.log[i].ev = "compile" /\ UsesCache(last'.log[i].e, executors')) =>
                last'.log[i].pid \notin DOMAIN compiled_cache
      ]_vars

\* C3 witness: a native attempt of a cache-enabled executor found its
\* artifact in compiled_cache and did not compile.
C3_Witness ==
    \E i \in 1..Len(last.log) :
        /\ last.log[i].ev = "cache_hit"
        /\ UsesCache(last.log[i].e, executors)
        /\ ~HasFor(last.log, "compile", last.log[i].pid)

\* How the call of executor e ended, in a log that holds its exit.
ExitOut(log, e) ==
    LET i == CHOOSE j \in 1..Len(log) : log[j].ev = "exit" /\ log[j].e = e
    IN  log[i].out

HasExit(log, e) == \E j \in 1..Len(log) : log[j].ev = "exit" /\ log[j].e = e

\* C4 as stated: when openvino_compile raises on the first use of a
\* partition, the executor call raises the compilation error.
C4_CompileErrorPropagates ==
    \A i \in 1..Len(last.log) :
        last.log[i].ev = "compile_raise" =>
            /\ HasExit(last.log, last.log[i].e)
            /\ ExitOut(last.log, last.log[i].e) = Raise("CompileError")

\* The executor call that made the native attempt at position i of log
\* caught the exception, entered fallback and ended the way its original
\* sub-graph self.gm ended.
FellBack(log, i, ex) ==
    LET e == log[i].e
    IN  /\ i + 1 <= Len(log)
        /\ log[i + 1].ev = "except" /\ log[i + 1].e = e
        /\ ex[e].perm_fallback
        /\ StartsModule(log, i + 1, ex[e].gm)
        /\ HasExit(log, e)
        /\ IF ex[e].gm.kind = "ov"
           THEN /\ HasExit(log, ex[e].gm.ref)
                /\ ExitOut(log, e) = ExitOut(log, ex[e].gm.ref)
           ELSE IF log[i + 3].ev = "gm_raise"
                THEN ExitOut(log, e) = Raise("GmError")
                ELSE ExitOut(log, e) = Ret(GmResult(ex[e].gm, <<>>))

\* C4 amended: when openvino_compile raises on the first use of a partition
\* the executor call does not raise the compilation error: it catches it,
\* sets perm_fallback and returns what the original sub-graph self.gm
\* returns (raising only what self.gm raises); no later call of that
\* executor compiles again.
C4_CompileErrorFallsBack ==
    [][ /\ \A i \in 1..Len(last'.log) :
             last'.log[i].ev = "compile_raise" =>
                /\ FellBack(last'.log, i, executors')
                /\ ExitOut(last'.log, last'.log[i].e).err # "CompileError"
                /\ last'.out.err # "CompileError"
        /\ \A i \in 1..Len(last'.log) :
             last'.log[i].ev = "compile" => last'.log[i].e \notin raised
      ]_vars

\* C4 witness: a compilation failed during a call and the call returned the
\* original sub-graph's result.
C4_Witness ==
    \E i \in 1..Len(last.log) :
        /\ last.log[i].ev = "compile_raise"
        /\ last.out.kind = "ret"
        /\ executors[last.log[i].e].perm_fallback

\* The native attempt that raised at position i of log had found its
\* artifact in compiled_cache.
AlreadyCompiled(log, i) ==
    \E j \in 1..(i - 1) : log[j].ev = "cache_hit" /\ log[j].e = log[i].e

\* C5: when the native execution of an already-compiled partition raises
\* inside an Active executor's call, the error is not propagated: the call
\* sets perm_fallback and returns the result of the original sub-graph
\* self.gm, raising only if self.gm raises.
C5_ExecutionErrorFallsBack ==
    \A i \in 1..Len(last.log) :
        (last.log[i].ev \in {"invoke_raise", "convert_raise"} /\ AlreadyCompiled(last.log, i)) =>
            /\ FellBack(last.log, i, executors)
            /\ ExitOut(last.log, last.log[i].e).err \notin {"RuntimeError", "AttributeError"}
            /\ last.out.err \notin {"RuntimeError", "AttributeError"}
            /\ (last.out.kind = "raise" => Has(last.log, "gm_raise"))

\* C5 witness: the artifact of an already-compiled partition raised and the
\* call returned the result of the original sub-graph.
C5_Witness ==
    \E i \in 1..Len(last.log) :
        /\ last.log[i].ev = "invoke_raise"
        /\ AlreadyCompiled(last.log, i)
        /\ last.out.kind = "ret"
        /\ executors[last.log[i].e].perm_fallback

\* C6: partition identifiers are assigned in strictly increasing order and no
\* identifier is assigned to two executors; max_openvino_partitions never
\* decreases and clear_caches does not reset it.
C6_PartitionIdsIncrease ==
    [][ /\ max_openvino_partitions' >= max_openvino_partitions
        /\ last'.op = "clear_caches" => max_openvino_partitions' = max_openvino_partitions
        /\ \A i, j \in 1..Len(executors') :
             i < j => executors'[i].partition_id < executors'[j].partition_id
        /\ \A i \in (Len(executors) + 1)..Len(executors') :
             /\ executors'[i].partition_id >= max_openvino_partitions
             /\ executors'[i].partition_id < max_openvino_partitions'
      ]_vars

\* C6 witness: executors were created by two partition_graph calls with a
\* clear_caches in between.
C6_Witness ==
    /\ Len(executors) >= 2
    /\ cleared # {}
    /\ Has(last.log, "partition_graph")
    /\ executors[1].partition_id < executors[2].partition_id

\* The positions of log where a native attempt looks for its artifact: it
\* compiles or takes the artifact from compiled_cache.
Lookups(log) == { i \in 1..Len(log) : log[i].ev \in {"compile", "cache_hit"} }

\* The first native attempt of log, if there is one, invokes the compiler.
FirstNativeCompiles(log) ==
    \A i \in Lookups(log) :
        (\A j \in Lookups(log) : i <= j) => log[i].ev = "compile"

\* C7: after clear_caches both partitioned_modules and compiled_cache are
\* empty, and the next openvino_execute_partitioned call for a signature
\* seen before the clear runs partition_graph again and its first native
\* attempt invokes openvino_compile again.
C7_ClearForcesFreshPartitionAndCompile ==
    [][ /\ last'.op = "clear_caches" =>
              /\ DOMAIN compiled_cache' = {}
              /\ DOMAIN partitioned_modules' = {}
        /\ (IsPartitionedCall(last') /\ last'.sig \in cleared) =>
              /\ Has(last'.log, "partition_graph")
              /\ Len(executors') > Len(executors)
              /\ NumFused(last'.callee) > 0 => Has(last'.log, "compile")
              /\ FirstNativeCompiles(last'.log)
      ]_vars

\* C7 witness: a signature was partitioned, the caches were cleared, and the
\* next call with that signature partitioned the graph again (the new
\* executor wraps the one of the first partitioning) and compiled.
C7_Witness ==
    /\ IsPartitionedCall(last)
    /\ Has(last.log, "partition_graph")
    /\ Has(last.log, "compile")
    /\ DOMAIN partitioned_modules = {last.sig}
    /\ cleared = {}
    /\ Len(executors) = 2
    /\ executors[2].gm = Ov(1)

\* The state the scenario of C8 is in after its first call on graph g: one
\* partitioning, under the signature of shape A.
AfterFirstCall(g) ==
    /\ max_openvino_partitions = 1
    /\ DOMAIN partitioned_modules = {Signature(g, ArgsA)}
    /\ Len(executors) = 1

\* The first call of the scenario on g: from empty caches and counter 0 it
\* partitions (partition id 0) and invokes the compiler.
FirstCallPartitionsAndCompiles(g) ==
    ( /\ DOMAIN compiled_cache = {}
      /\ DOMAIN partitioned_modules = {}
      /\ max_openvino_partitions = 0
      /\ IsPartitionedCall(last') /\ last'.sig = Signature(g, ArgsA) ) =>
         /\ Has(last'.log, "partition_graph")
         /\ Len(executors') = 1
         /\ executors'[1].partition_id = 0
         /\ HasFor(last'.log, "compile", 0)

\* The third call of the scenario on g, with shape B after the second call
\* with shape A: it partitions again under the new signature, assigns a new
\* partition id and invokes the compiler for it, whatever the configuration
\* of the calls.
ThirdCallPartitionsAndCompiles(g) ==
    ( /\ AfterFirstCall(g)
      /\ IsPartitionedCall(last) /\ last.sig = Signature(g, ArgsA)
      /\ ~Has(last.log, "partition_graph")
      /\ IsPartitionedCall(last') /\ last'.sig = Signature(g, ArgsB) ) =>
         /\ Has(last'.log, "partition_graph")
         /\ last'.callee = g
         /\ Len(executors') = 2
         /\ executors'[2].partition_id = 1
         /\ HasFor(last'.log, "compile", 1)

\* C8 as stated: from empty caches and counter 0, for a graph with one
\* fusible region: the first call with shape A partitions (partition id 0)
\* and compiles; a second call with shape A runs neither partitioner nor
\* compiler; a third call on the same graph with shape B partitions again
\* under the new signature, assigns a new partition id and compiles for it.
C8_ScenarioAnyConfiguration ==
    [][ \A g \in { h \in Graphs : NumFused(h) = 1 } :
          /\ FirstCallPartitionsAndCompiles(g)
          /\ ( /\ AfterFirstCall(g)
               /\ IsPartitionedCall(last') /\ last'.sig = Signature(g, ArgsA) ) =>
                  /\ ~Has(last'.log, "partition_graph")
                  /\ ~Has(last'.log, "compile")
                  /\ max_openvino_partitions' = 1
          /\ ThirdCallPartitionsAndCompiles(g)
      ]_vars

\* C8 amended: the same scenario, in which the second call with shape A
\* never runs the partitioner, and does not run the compiler provided the
\* first call was made with use_python_fusion_cache enabled (the default),
\* so that the executor of partition 0 reuses its artifact.
C8_Scenario ==
    [][ \A g \in { h \in Graphs : NumFused(h) = 1 } :
          /\ FirstCallPartitionsAndCompiles(g)
          /\ ( /\ AfterFirstCall(g)
               /\ IsPartitionedCall(last') /\ last'.sig = Signature(g, ArgsA) ) =>
                  /\ ~Has(last'.log, "partition_graph")
                  /\ max_openvino_partitions' = 1
                  /\ UsesCache(1, executors) => ~Has(last'.log, "compile")
          /\ ThirdCallPartitionsAndCompiles(g)
      ]_vars

\* C8 witness: the third call of the scenario has run, the first call
\* having been made with use_python_fusion_cache enabled: the graph is
\* partitioned under both signatures, the artifact of partition 0 is still
\* cached and the compiler was invoked for partition 1.
C8_Witness ==
    \E g \in { h \in Graphs : NumFused(h) = 1 } :
        /\ DOMAIN partitioned_modules = {Signature(g, ArgsA), Signature(g, ArgsB)}
        /\ IsPartitionedCall(last) /\ last.sig = Signature(g, ArgsB)
        /\ Has(last.log, "partition_graph")
        /\ HasFor(last.log, "compile", 1)
        /\ 0 \in DOMAIN compiled_cache
        /\ cleared = {}
        /\ executors[1].partition_id = 0 /\ executors[2].partition_id = 1
        /\ UsesCache(1, executors)

\* C9: execute() with an executor other than "openvino" and
\* "strictly_openvino" raises ValueError at once, without partitioning,
\* compiling or executing: the caches and the counter are unchanged.
C9_UnknownExecutorRejected ==
    [][ last'.executor \in (ExecutorChoices \ {"openvino", "strictly_openvino"}) =>
            /\ last'.op = "execute"
            /\ last'.out = TopRaise("ValueError")
            /\ last'.log = <<>>
            /\ UNCHANGED <<partitioned_modules, compiled_cache, max_openvino_partitions,
                           submodules, executors>>
      ]_vars

\* C9 witness: execute() was called with the default executor "aten" while
\* the caches were in use, and was rejected.
C9_Witness ==
    /\ last.op = "execute"
    /\ last.executor = "aten"
    /\ last.out = TopRaise("ValueError")
    /\ DOMAIN partitioned_modules # {}
    /\ DOMAIN compiled_cache # {}

\* C10: execute() with executor "strictly_openvino" is accepted and runs the
\* graph through openvino_execute (compile or cache lookup, then native
\* execution), and returns a result when compilation and execution succeed.
C10_StrictlyOpenvinoRuns ==
    last.executor = "strictly_openvino" =>
        /\ last.out.err # "TypeError"
        /\ Lookups(last.log) # {}
        /\ ( /\ ~Has(last.log, "compile_raise")
             /\ ~Has(last.log, "convert_raise")
             /\ ~Has(last.log, "invoke_raise") ) => last.out.kind = "ret"

\* The native attempt at position i of log compiled and stored its artifact
\* (`compiled_cache[partition_id] = compiled`): openvino_compile returned.
Stored(log, i) ==
    /\ log[i].ev = "compile"
    /\ ~(i + 1 <= Len(log) /\ log[i + 1].ev = "compile_raise")

\* C11 as stated: after compiled_cache[P] is first set its value is never
\* replaced by any operation (no assignment to an existing entry), and the
\* entry only disappears through clear_caches.
C11_ArtifactNeverReplaced ==
    [][ /\ \A i \in 1..Len(last'.log) :
             Stored(last'.log, i) => last'.log[i].pid \notin DOMAIN compiled_cache
        /\ \A P \in DOMAIN compiled_cache :
             IF P \in DOMAIN compiled_cache'
             THEN compiled_cache'[P] = compiled_cache[P]
             ELSE last'.op = "clear_caches"
      ]_vars

\* C11 amended: for a partition identifier P whose executor was created with
\* use_python_fusion_cache enabled, after compiled_cache[P] is first set no
\* operation assigns to the entry again; for every P the entry only
\* disappears through clear_caches.
C11_ArtifactKeptWhenCacheEnabled ==
    [][ /\ \A i \in 1..Len(last'.log) :
             (Stored(last'.log, i) /\ UsesCache(last'.log[i].e, executors')) =>
                 last'.log[i].pid \notin DOMAIN compiled_cache
        /\ \A P \in DOMAIN compiled_cache :
             IF P \in DOMAIN compiled_cache'
             THEN compiled_cache'[P] = compiled_cache[P]
             ELSE last'.op = "clear_caches"
      ]_vars

\* C11 witness: a cache-enabled executor made a native attempt while its
\* entry existed, and the entry still holds the artifact of its sub-graph.
C11_Witness ==
    \E i \in 1..Len(last.log) :
        /\ last.log[i].ev = "cache_hit"
        /\ UsesCache(last.log[i].e, executors)
        /\ last.log[i].pid \in DOMAIN compiled_cache
        /\ compiled_cache[last.log[i].pid].gm = executors[last.log[i].e].gm
        /\ Cardinality(DOMAIN compiled_cache) = 2

\* The graph g is stored in the partition cache: partition_graph ran on it
\* since the last clear_caches.
PartitionedSinceClear(g, pm) == \E s \in DOMAIN pm : pm[s] = g

\* C12: a partition record is created once per distinct fused sub-graph: a
\* call on a graph that was already partitioned since the last clear_caches
\* (under the same or under another signature) creates no further executor,
\* so each fused sub-graph stays wrapped by the one OpenVINOGraphModule, with
\* the one partition identifier, it got at the first partitioning.
C12_OneRecordPerFusedSubgraph ==
    [][ \A g \in Graphs :
          ( /\ IsPartitionedCall(last')
            /\ last'.callee = g
            /\ PartitionedSinceClear(g, partitioned_modules) ) =>
              /\ Len(executors') = Len(executors)
              /\ \A t \in Targets(g) :
                   /\ ChainExecutors(submodules'[g][t], executors')
                        = ChainExecutors(submodules[g][t], executors)
                   /\ Cardinality(ChainExecutors(submodules'[g][t], executors')) <= 1
      ]_vars

\* ------------------------------------------------- concurrent callers
\* The same code run by the callers in Threads, one statement at a time.
\* Callers serialize per cache key only: a call starts only when no call
\* with the same signature is under way, and a native attempt starts only
\* when no native attempt with the same partition identifier is under way.
\* Every caller passes the default configuration, and the native runtime
\* does not raise here.

\* The calls the concurrent callers make.
ConcurrentCalls == {<<"G1", ArgsA>>, <<"G2", ArgsA>>}

\* The caller t is inside openvino_execute (a native attempt).
InNativeAttempt(t) == threads[t].pc \in {"compile", "store_compiled", "invoke"}

\* threads with the caller t moved to th.
SetThread(t, th) == [threads EXCEPT ![t] = th]

\* Lines 133-149: the call starts and computes its signature.
ThreadEnter(t, c) ==
    /\ threads[t].pc = "idle"
    /\ \A u \in Threads \ {t} :
          threads[u].pc = "idle" \/ threads[u].signature # Signature(c[1], c[2])
    /\ threads' = SetThread(t, [IdleThread EXCEPT !.pc = "lookup", !.g = c[1], !.args = c[2],
                                                 !.signature = Signature(c[1], c[2])])
    /\ UNCHANGED <<cacheVars, outsideThreads>>

\* Line 151: `if signature not in partitioned_modules`.
ThreadLookup(t) ==
    /\ threads[t].pc = "lookup"
    /\ threads' = SetThread(t,
          IF CacheMiss(threads[t].signature, partitioned_modules)
          THEN [threads[t] EXCEPT !.pc = "partition_enter"]
          ELSE [threads[t] EXCEPT !.pc = "forward", !.i = 1])
    /\ UNCHANGED <<cacheVars, outsideThreads>>

\* Line 115: `partition_id = max_openvino_partitions`.
ThreadReadCounter(t) ==
    /\ threads[t].pc = "partition_enter"
    /\ threads' = SetThread(t, [threads[t] EXCEPT
                                   !.pc = "partition_loop",
                                   !.partition_id = FirstPartitionId(max_openvino_partitions),
                                   !.i = 1])
    /\ UNCHANGED <<cacheVars, outsideThreads>>

\* Lines 116-126: one iteration of partition_graph's loop.
ThreadScanNode(t) ==
    LET th == threads[t]
        nodes == Nodes(th.g)
        ep == OrDefault(NoneParams)
    IN  /\ th.pc = "partition_loop"
        /\ th.i <= Len(nodes)
        /\ IF IsFusedNode(nodes[th.i])
           THEN LET openvino_submodule == submodules[th.g][nodes[th.i].name]
                    ex1 == Append(executors,
                                  NewExecutor(openvino_submodule, th.partition_id,
                                              GetUseCache(ep), GetModelHash(ep)))
                IN  /\ executors' = ex1
                    /\ submodules' = [submodules EXCEPT ![th.g][nodes[th.i].target] = Ov(Len(ex1))]
                    /\ threads' = SetThread(t, [th EXCEPT
                                      !.partition_id = NextPartitionId(th.partition_id),
                                      !.i = th.i + 1])
           ELSE /\ threads' = SetThread(t, [th EXCEPT !.i = th.i + 1])
                /\ UNCHANGED <<executors, submodules>>
        /\ UNCHANGED <<compiled_cache, max_openvino_partitions, partitioned_modules,
                       last, raised, seen, cleared>>
        /\ UNCHANGED outsideThreads

\* Lines 128-130: `max_openvino_partitions = partition_id; return gm`.
ThreadWriteCounter(t) ==
    /\ threads[t].pc = "partition_loop"
    /\ threads[t].i > Len(Nodes(threads[t].g))
    /\ max_openvino_partitions' = threads[t].partition_id
    /\ threads' = SetThread(t, [threads[t] EXCEPT !.pc = "partition_store"])
    /\ UNCHANGED <<compiled_cache, partitioned_modules, submodules, executors,
                   last, raised, seen, cleared>>
    /\ UNCHANGED outsideThreads

\* Line 152: `partitioned_modules[signature] = ...`.
ThreadStorePartitioned(t) ==
    /\ threads[t].pc = "partition_store"
    /\ partitioned_modules' = Put(partitioned_modules, threads[t].signature, threads[t].g)
    /\ threads' = SetThread(t, [threads[t] EXCEPT !.pc = "forward", !.i = 1])
    /\ UNCHANGED <<compiled_cache, max_openvino_partitions, submodules, executors,
                   last, raised, seen, cleared>>
    /\ UNCHANGED outsideThreads

\* Line 154: the stored graph runs its next node.  A call_module node whose
\* sub-module is an executor enters OpenVINOGraphModule.__call__ (lines
\* 100-105) and openvino_execute up to the cache test of lines 74-75.
ThreadForward(t) ==
    LET th == threads[t]
        callee == partitioned_modules[th.signature]
        nodes == Nodes(callee)
        m == submodules[callee][nodes[th.i].target]
    IN  /\ th.pc = "forward"
        /\ th.i <= Len(nodes)
        /\ IF nodes[th.i].op # "call_module" \/ m.kind # "ov" \/ executors[m.ref].perm_fallback
           THEN threads' = SetThread(t, [th EXCEPT !.i = th.i + 1])
           ELSE LET self == executors[m.ref]
                    use_cache == GetUseCache(OrDefault(self.executor_parameters))
                IN  /\ \A u \in Threads \ {t} :
                          InNativeAttempt(u) =>
                              executors[threads[u].e].partition_id # self.partition_id
                    /\ threads' = SetThread(t,
                          IF UseCompiled(use_cache, self.partition_id, compiled_cache)
                          THEN [th EXCEPT !.pc = "invoke", !.e = m.ref,
                                          !.compiled = compiled_cache[self.partition_id]]
                          ELSE [th EXCEPT !.pc = "compile", !.e = m.ref])
        /\ UNCHANGED <<cacheVars, outsideThreads>>

\* Line 77: `compiled = openvino_compile(gm, *args, model_hash_str=...)`.
ThreadCompile(t) ==
    LET th == threads[t]
        self == executors[th.e]
        hash0 == GetModelHash(OrDefault(self.executor_parameters))
        model_hash_str == IF hash0 # "None" THEN <<hash0, ToString(self.partition_id)>> ELSE <<>>
    IN  /\ th.pc = "compile"
        /\ threads' = SetThread(t, [th EXCEPT !.pc = "store_compiled",
                                             !.compiled = Artifact(self.gm, th.args, model_hash_str)])
        /\ UNCHANGED <<cacheVars, outsideThreads>>

\* Line 78: `compiled_cache[partition_id] = compiled`.
ThreadStoreCompiled(t) ==
    /\ threads[t].pc = "store_compiled"
    /\ compiled_cache' = Put(compiled_cache, executors[threads[t].e].partition_id,
                             threads[t].compiled)
    /\ threads' = SetThread(t, [threads[t] EXCEPT !.pc = "invoke"])
    /\ UNCHANGED <<max_openvino_partitions, partitioned_modules, submodules, executors,
                   last, raised, seen, cleared>>
    /\ UNCHANGED outsideThreads

\* Lines 80-88 and 110: the artifact runs and the executor returns its result.
ThreadInvoke(t) ==
    /\ threads[t].pc = "invoke"
    /\ threads' = SetThread(t, [threads[t] EXCEPT !.pc = "forward", !.i = threads[t].i + 1,
                                                 !.e = 0, !.compiled = NoArtifact])
    /\ UNCHANGED <<cacheVars, outsideThreads>>

\* Line 154: the graph has run all its nodes and the call returns.
ThreadReturn(t) ==
    /\ threads[t].pc = "forward"
    /\ threads[t].i > Len(Nodes(partitioned_modules[threads[t].signature]))
    /\ threads' = SetThread(t, IdleThread)
    /\ UNCHANGED <<cacheVars, outsideThreads>>

NextConcurrent ==
    \E t \in Threads :
        \/ \E c \in ConcurrentCalls : ThreadEnter(t, c)
        \/ ThreadLookup(t)
        \/ ThreadReadCounter(t)
        \/ ThreadScanNode(t)
        \/ ThreadWriteCounter(t)
        \/ ThreadStorePartitioned(t)
        \/ ThreadForward(t)
        \/ ThreadCompile(t)
        \/ ThreadStoreCompiled(t)
        \/ ThreadInvoke(t)
        \/ ThreadReturn(t)

SpecConcurrent == Init /\ [][NextConcurrent]_vars

\* The executors that own the partition identifier P.
Owners(P, ex) == { e \in 1..Len(ex) : ex[e].partition_id = P }

\* C13: when callers serialize per cache key only and calls for different
\* keys interleave at any step, every partition identifier is assigned to at
\* most one executor and every compiled_cache entry holds the artifact
\* compiled for the sub-graph of the executor that owns its identifier.
C13_CachesConsistentUnderPerKeySerialization ==
    /\ \A i, j \in 1..Len(executors) :
          i # j => executors[i].partition_id # executors[j].partition_id
    /\ \A P \in DOMAIN compiled_cache :
          \A e \in Owners(P, executors) : compiled_cache[P].gm = executors[e].gm

\* ----------------------------------------- openvino_execute: the results
\* Most outputs an artifact declares.
MaxOutputs == 3

\* The output ports of an artifact.
Ports == 1..MaxOutputs

\* A numpy array and the torch tensor torch.from_numpy makes of it: the
\* tensor shares the array's data.
NdArray(data) == [kind |-> "ndarray", data |-> data]
FromNumpy(a) == [kind |-> "tensor", data |-> a.data]

\* The arrays an artifact returns.
Arrays == {NdArray(7), NdArray(8)}

\* compiled.outputs: the declared outputs, distinct ports in declared order.
OutputLists ==
    { s \in UNION { [1..n -> Ports] : n \in 0..MaxOutputs } :
        \A i, j \in DOMAIN s : i # j => s[i] # s[j] }

\* `results1 = [torch.from_numpy(res[out]) for out in compiled.outputs]`
Results1(compiled_outputs, r) ==
    [k \in 1..Len(compiled_outputs) |-> FromNumpy(r[compiled_outputs[k]])]

\* A Python value openvino_execute returns: a tensor (items holds it) or a
\* list of tensors.
Bare(v) == [is_list |-> FALSE, items |-> <<v>>]
List(vs) == [is_list |-> TRUE, items |-> vs]

ReturnValue_list(results1) == List(results1)
\* `if len(results1) == 1: return results1[0]` / `return results1`
ReturnValue(results1) ==
    IF Len(results1) = 1 THEN Bare(results1[1]) ELSE List(results1)

\* An artifact with its declared outputs has run and produced res.
AdapterInit ==
    /\ CachesInit
    /\ ThreadsInit
    /\ BindingInit
    /\ SignatureIdle
    /\ outputs \in OutputLists
    /\ res \in [Ports -> Arrays]
    /\ returned = NotReturned

\* Lines 85-88 of openvino_execute.
ReturnResults ==
    /\ returned = NotReturned
    /\ returned' = ReturnValue(Results1(outputs, res))
    /\ UNCHANGED <<outputs, res, cacheVars, threadVars, bindingVars, signatureVars>>

NextAdapter == ReturnResults

SpecAdapter == AdapterInit /\ [][NextAdapter]_vars

\* C14: openvino_execute returns the bare converted value when the artifact
\* declares exactly one output, and otherwise a list with one converted
\* value per declared output, in the order of compiled.outputs.
C14_BareValueOrOrderedList ==
    returned # NotReturned =>
        IF Len(outputs) = 1
        THEN /\ ~returned.is_list
             /\ returned.items = <<FromNumpy(res[outputs[1]])>>
        ELSE /\ returned.is_list
             /\ Len(returned.items) = Len(outputs)
             /\ \A k \in 1..Len(outputs) :
                   /\ returned.items[k].kind = "tensor"
                   /\ returned.items[k].data = res[outputs[k]].data

\* C14 witness: an artifact with two declared outputs whose values differ
\* returned a list.
C14_Witness ==
    /\ returned # NotReturned
    /\ Len(outputs) = 2
    /\ res[outputs[1]] # res[outputs[2]]
    /\ returned.is_list
    /\ Len(returned.items) = 2

\* ------------------------------------------------ the runtime binding
\* ie_api.py: CompiledModel, InferRequest and AsyncInferQueue.  The classes
\* they wrap (_pyopenvino) are the native runtime: a request is idle or
\* running, inference started asynchronously completes on a runtime thread,
\* and AsyncInferQueue.get_idle_request_id waits for an idle request.

\* Most InferRequest objects create_infer_request makes.
MaxRequests == 2

\* What a caller passes for share_inputs ("absent": not passed) and for
\* shared_memory (None is its default).
ShareInputsChoices == {"absent", "True", "False"}
SharedMemoryChoices == {"None", "True", "False"}

\* The default of the parameter share_inputs in each method's signature.
ShareInputsDefault(method) ==
    IF method = "CompiledModel.__call__" THEN "True" ELSE "False"

\* The value a parameter takes: the one passed, or its default.
Arg(passed, default) == IF passed = "absent" THEN default ELSE passed

DeprecatedMemoryArg_ignore(shared_memory, share_inputs) == [value |-> share_inputs, warned |-> 0]
\* _deprecated_memory_arg(shared_memory, share_inputs): the value it returns
\* and the number of FutureWarnings it issues.
DeprecatedMemoryArg(shared_memory, share_inputs) ==
    IF shared_memory # "None"
    THEN [value |-> shared_memory, warned |-> 1]
    ELSE [value |-> share_inputs, warned |-> 0]

\* The is_shared value a method hands on, with the number of FutureWarnings
\* issued on the way.  InferRequest.infer, InferRequest.start_async and
\* AsyncInferQueue.start_async pass
\* _deprecated_memory_arg(shared_memory, share_inputs); CompiledModel.__call__
\* passes that value as share_inputs to InferRequest.infer, with shared_memory
\* left at None, where it goes through _deprecated_memory_arg once more.
SharingMode(method, share_inputs, shared_memory) ==
    LET outer == DeprecatedMemoryArg(shared_memory, Arg(share_inputs, ShareInputsDefault(method)))
        inner == DeprecatedMemoryArg("None", Arg(outer.value, ShareInputsDefault("InferRequest.infer")))
    IN  IF method = "CompiledModel.__call__"
        THEN [value |-> inner.value, warned |-> outer.warned + inner.warned]
        ELSE outer

\* The record of a call: method, the object it was called on, the request
\* that ran, whether a request was created, the sharing arguments as passed
\* and the is_shared value handed to _data_dispatch with the warnings issued.
Call(op, target, request, started, made, share_inputs, shared_memory, d, warnings) ==
    [op |-> op, target |-> target, request |-> request, started |-> started, created |-> made,
     share_inputs |-> share_inputs, shared_memory |-> shared_memory,
     is_shared |-> d.value, warnings |-> warnings]

NeedsRequest_always(stored) == TRUE
\* `if self._infer_request is None`
NeedsRequest(stored) == stored = None

\* CompiledModel.__call__(inputs, share_inputs, share_outputs, shared_memory=...)
\* on the object cm: the stored request runs InferRequest.infer with
\* share_inputs set to what _deprecated_memory_arg returned.
CompiledModelCall(cm, share_inputs, shared_memory) ==
    LET need == NeedsRequest(infer_request[cm])
        r == IF need THEN created + 1 ELSE infer_request[cm]
        d == SharingMode("CompiledModel.__call__", share_inputs, shared_memory)
    IN  /\ need => created < MaxRequests
        /\ created' = IF need THEN created + 1 ELSE created
        /\ infer_request' = [infer_request EXCEPT ![cm] = r]
        /\ call' = Call("CompiledModel.__call__", cm, r, None, need, share_inputs, shared_memory,
                        d, d.warned)
        /\ UNCHANGED <<requests, pool, idle_ids, starters, asked,
                       cacheVars, threadVars, adapterVars, signatureVars>>

\* CompiledModel.infer_new_request(inputs): `self.create_infer_request().infer(inputs)`.
InferNewRequest(cm) ==
    LET d == SharingMode("InferRequest.infer", "absent", "None")
    IN  /\ created < MaxRequests
        /\ created' = created + 1
        /\ call' = Call("CompiledModel.infer_new_request", cm, created + 1, None, TRUE,
                        "absent", "None", d, d.warned)
        /\ UNCHANGED <<infer_request, requests, pool, idle_ids, starters, asked,
                       cacheVars, threadVars, adapterVars, signatureVars>>

\* CompiledModel.create_infer_request(), called by the user, who keeps the
\* request.
CreateInferRequest(cm) ==
    /\ created < MaxRequests
    /\ created' = created + 1
    /\ requests' = Put(requests, created + 1, "idle")
    /\ call' = Call("CompiledModel.create_infer_request", cm, created + 1, None, TRUE,
                    "absent", "None", [value |-> "False"], 0)
    /\ UNCHANGED <<infer_request, pool, idle_ids, starters, asked,
                   cacheVars, threadVars, adapterVars, signatureVars>>

\* InferRequest.infer(inputs, share_inputs, share_outputs, shared_memory=...)
\* on the user's idle request r: synchronous, the request is idle again
\* when it returns.
RequestInfer(r, share_inputs, shared_memory) ==
    LET d == SharingMode("InferRequest.infer", share_inputs, shared_memory)
    IN  /\ r \in DOMAIN requests
        /\ requests[r] = "idle"
        /\ call' = Call("InferRequest.infer", "", r, None, FALSE, share_inputs, shared_memory,
                        d, d.warned)
        /\ UNCHANGED <<infer_request, created, requests, pool, idle_ids, starters, asked,
                       cacheVars, threadVars, adapterVars, signatureVars>>

\* InferRequest.start_async(inputs, userdata, share_inputs, shared_memory=...)
\* on the user's idle request r: returns at once, the request is running.
RequestStartAsync(r, share_inputs, shared_memory) ==
    LET d == SharingMode("InferRequest.start_async", share_inputs, shared_memory)
    IN  /\ r \in DOMAIN requests
        /\ requests[r] = "idle"
        /\ requests' = [requests EXCEPT ![r] = "running"]
        /\ call' = Call("InferRequest.start_async", "", r, r, FALSE, share_inputs, shared_memory,
                        d, d.warned)
        /\ UNCHANGED <<infer_request, created, pool, idle_ids, starters, asked,
                       cacheVars, threadVars, adapterVars, signatureVars>>

\* The runtime completes the inference of the user's running request r.
RequestComplete(r) ==
    /\ r \in DOMAIN requests
    /\ requests[r] = "running"
    /\ requests' = [requests EXCEPT ![r] = "idle"]
    /\ call' = [NoCall EXCEPT !.op = "completion", !.request = r]
    /\ UNCHANGED <<infer_request, created, pool, idle_ids, starters, asked,
                   cacheVars, threadVars, adapterVars, signatureVars>>

\* AsyncInferQueueBase.get_idle_request_id(): the id of the request that has
\* been idle longest (the caller waits while there is none).  The request
\* stays in the idle list.
GetIdleRequestId(idle) == Head(idle)

\* `self[id]`: AsyncInferQueue.__getitem__ wraps the pool's request id, the
\* one whose input tensors _data_dispatch fills.
DispatchTarget(id) == id

StartHandle_dispatched(idle, id) == id
\* The native AsyncInferQueueBase.start_async is handed the dispatched
\* request data and the userdata, not the id: it takes the request that has
\* been idle longest at that moment.
StartHandle(idle, id) == Head(idle)

\* AsyncInferQueue.start_async(inputs, userdata, share_inputs, shared_memory=...)
\* runs in three steps, between which other callers and completions run.
\* First the argument `self.get_idle_request_id()` is evaluated: the caller
\* k, who passed share_inputs and shared_memory, waits until a request is
\* idle and gets its id.
QueueGetIdleRequestId(k, share_inputs, shared_memory) ==
    /\ starters[k].pc = "idle"
    /\ idle_ids # <<>>
    /\ starters' = [starters EXCEPT ![k] = [pc |-> "get_idle_request_id",
                                            id |-> GetIdleRequestId(idle_ids),
                                            share_inputs |-> share_inputs,
                                            shared_memory |-> shared_memory]]
    /\ call' = [NoCall EXCEPT !.op = "AsyncInferQueue.get_idle_request_id",
                              !.request = GetIdleRequestId(idle_ids)]
    /\ UNCHANGED <<infer_request, created, requests, pool, idle_ids, asked,
                   cacheVars, threadVars, adapterVars, signatureVars>>

\* Then `_data_dispatch(self[id], inputs, is_shared=_deprecated_memory_arg(...))`
\* writes the inputs into the request with the id the caller got, whatever
\* state that request is in by now.
QueueDataDispatch(k) ==
    LET d == SharingMode("AsyncInferQueue.start_async",
                         starters[k].share_inputs, starters[k].shared_memory)
    IN  /\ starters[k].pc = "get_idle_request_id"
        /\ starters' = [starters EXCEPT ![k].pc = "_data_dispatch"]
        /\ call' = Call("AsyncInferQueue.start_async", "", DispatchTarget(starters[k].id), None,
                        FALSE, starters[k].share_inputs, starters[k].shared_memory,
                        d, d.warned)
        /\ UNCHANGED <<infer_request, created, requests, pool, idle_ids, asked,
                       cacheVars, threadVars, adapterVars, signatureVars>>

\* Last `super().start_async(dispatched, userdata)`: the native queue waits
\* until a request is idle, takes it from the idle list and starts it; the
\* call returns while the request runs.  The record keeps the request the
\* inputs went to and the request that was started.
QueueStartAsync(k) ==
    LET handle == StartHandle(idle_ids, starters[k].id)
    IN  /\ starters[k].pc = "_data_dispatch"
        /\ idle_ids # <<>>
        /\ pool' = [pool EXCEPT ![handle] = "running"]
        /\ idle_ids' = SelectSeq(idle_ids, LAMBDA x : x # handle)
        /\ starters' = [starters EXCEPT ![k] = NotStarting]
        /\ call' = [NoCall EXCEPT !.op = "AsyncInferQueueBase.start_async",
                                  !.request = DispatchTarget(starters[k].id),
                                  !.started = handle]
        /\ UNCHANGED <<infer_request, created, requests, asked,
                       cacheVars, threadVars, adapterVars, signatureVars>>

\* The runtime completes the inference of the queue's running request id:
\* its callback runs and the request is idle again.
QueueComplete(id) ==
    /\ pool[id] = "running"
    /\ pool' = [pool EXCEPT ![id] = "idle"]
    /\ idle_ids' = Append(idle_ids, id)
    /\ call' = [NoCall EXCEPT !.op = "queue_completion", !.request = id]
    /\ UNCHANGED <<infer_request, created, requests, starters, asked,
                   cacheVars, threadVars, adapterVars, signatureVars>>

NextBinding ==
    \/ \E cm \in Models, si \in ShareInputsChoices, sm \in SharedMemoryChoices :
          CompiledModelCall(cm, si, sm)
    \/ \E cm \in Models : InferNewRequest(cm)
    \/ \E cm \in Models : CreateInferRequest(cm)
    \/ \E r \in 1..MaxRequests, si \in ShareInputsChoices, sm \in SharedMemoryChoices :
          RequestInfer(r, si, sm)
    \/ \E r \in 1..MaxRequests, si \in ShareInputsChoices, sm \in SharedMemoryChoices :
          RequestStartAsync(r, si, sm)
    \/ \E r \in 1..MaxRequests : RequestComplete(r)

\* CompiledModel and the InferRequest objects it makes.
SpecBinding == Init /\ [][NextBinding]_vars

NextQueue ==
    \/ \E k \in Starters, si \in ShareInputsChoices, sm \in SharedMemoryChoices :
          QueueGetIdleRequestId(k, si, sm)
    \/ \E k \in Starters : QueueDataDispatch(k)
    \/ \E k \in Starters : QueueStartAsync(k)
    \/ \E id \in PoolIds : QueueComplete(id)

\* An AsyncInferQueue and the callers of its start_async.
SpecQueue == Init /\ [][NextQueue]_vars

\* The methods that take share_inputs and shared_memory.
SharingMethods == {"InferRequest.infer", "InferRequest.start_async",
                   "AsyncInferQueue.start_async", "CompiledModel.__call__"}

\* The calls of these methods: on each CompiledModel, on each InferRequest
\* and to each request of the queue, with every way of passing the two
\* arguments.
SharingCalls ==
    { [method |-> c[1], target |-> c[2], request |-> c[3],
       share_inputs |-> si, shared_memory |-> sm] :
      c \in ({"CompiledModel.__call__"} \X Models \X (1..MaxRequests))
            \cup ({"InferRequest.infer", "InferRequest.start_async"} \X {""} \X (1..MaxRequests))
            \cup ({"AsyncInferQueue.start_async"} \X {""} \X PoolIds),
      si \in ShareInputsChoices, sm \in SharedMemoryChoices }

\* One of the methods is about to be called.
SharingInit ==
    /\ CachesInit
    /\ ThreadsInit
    /\ AdapterIdle
    /\ SignatureIdle
    /\ infer_request = [cm \in Models |-> None]
    /\ created = 0
    /\ requests = EmptyDict
    /\ pool = [id \in PoolIds |-> "idle"]
    /\ idle_ids = [k \in 1..PoolSize |-> k - 1]
    /\ starters = [k \in Starters |-> NotStarting]
    /\ call = NoCall
    /\ asked \in SharingCalls

\* The method evaluates its sharing arguments and hands is_shared on.
PassSharingMode ==
    LET d == SharingMode(asked.method, asked.share_inputs, asked.shared_memory)
    IN  /\ call = NoCall
        /\ call' = Call(asked.method, asked.target, asked.request, None, FALSE,
                        asked.share_inputs, asked.shared_memory, d, d.warned)
        /\ UNCHANGED <<infer_request, created, requests, pool, idle_ids, starters, asked,
                       cacheVars, threadVars, adapterVars, signatureVars>>

NextSharing == PassSharingMode

\* The sharing arguments of the four methods, each called once.
SpecSharing == SharingInit /\ [][NextSharing]_vars

\* The requests stored in some CompiledModel's _infer_request.
StoredRequests(stored) == { stored[cm] : cm \in Models } \ {None}

\* C15: CompiledModel.__call__ creates an InferRequest only on the first call
\* of a CompiledModel object and stores it in _infer_request; every later
\* __call__ on that object runs inference on the stored request and creates
\* none; infer_new_request creates a fresh request on every call and neither
\* uses nor changes _infer_request.
C15_CallReusesStoredRequest ==
    [][ \A cm \in Models :
          /\ (call'.op = "CompiledModel.__call__" /\ call'.target = cm) =>
                IF infer_request[cm] = None
                THEN /\ call'.created
                     /\ created' = created + 1
                     /\ call'.request = created'
                     /\ infer_request'[cm] = call'.request
                     /\ call'.request \notin StoredRequests(infer_request)
                ELSE /\ ~call'.created
                     /\ created' = created
                     /\ call'.request = infer_request[cm]
                     /\ infer_request'[cm] = infer_request[cm]
          /\ (call'.op = "CompiledModel.infer_new_request" /\ call'.target = cm) =>
                /\ call'.created
                /\ created' = created + 1
                /\ call'.request = created'
                /\ call'.request \notin StoredRequests(infer_request')
                /\ infer_request' = infer_request
          /\ infer_request[cm] # None => infer_request'[cm] = infer_request[cm]
      ]_vars

\* C15 witness: a CompiledModel that already held a request was called again
\* and ran the stored request, after infer_new_request had made another one.
C15_Witness ==
    /\ call.op = "CompiledModel.__call__"
    /\ ~call.created
    /\ call.request = infer_request[call.target]
    /\ created = 2
    /\ Cardinality(StoredRequests(infer_request)) = 1
    /\ requests = EmptyDict

\* The methods that take share_inputs and shared_memory.
\* C17: in InferRequest.infer, InferRequest.start_async,
\* AsyncInferQueue.start_async and CompiledModel.__call__ the effective
\* input-sharing mode equals shared_memory whenever shared_memory is not None
\* (overriding share_inputs, with a FutureWarning) and share_inputs
\* otherwise; with neither given it is False for the first three and True
\* for CompiledModel.__call__.
C17_EffectiveSharingMode ==
    call.op \in SharingMethods =>
        /\ call.shared_memory # "None" =>
              (call.is_shared = call.shared_memory /\ call.warnings >= 1)
        /\ (call.shared_memory = "None" /\ call.share_inputs # "absent") =>
              (call.is_shared = call.share_inputs /\ call.warnings = 0)
        /\ (call.shared_memory = "None" /\ call.share_inputs = "absent") =>
              /\ call.warnings = 0
              /\ call.is_shared = IF call.op = "CompiledModel.__call__" THEN "True" ELSE "False"

\* C17 witness: CompiledModel.__call__ was given share_inputs=True and
\* shared_memory=False, and ran without sharing its inputs.
C17_Witness ==
    /\ call.op = "CompiledModel.__call__"
    /\ call.share_inputs = "True"
    /\ call.shared_memory = "False"
    /\ call.is_shared = "False"
    /\ call.warnings = 1

\* How often the id occurs in the sequence of idle ids.
Occurrences(idle, id) == Cardinality({ k \in 1..Len(idle) : idle[k] = id })

\* The queue's requests that are running.
Running(p) == { id \in PoolIds : p[id] = "running" }

\* C16: every request of the pool is in exactly one of {idle, running};
\* starting inference on an idle request moves it to running in the one step
\* of the native start; a running request returns to idle only through
\* completion; the request get_idle_request_id names is idle at that moment,
\* AsyncInferQueue.start_async starts only a request that is idle at the
\* moment of the start (which need not be the one its inputs went to when
\* another caller came in between), and the number of running requests never
\* exceeds the pool size.
C16_PoolRequestsIdleOrRunning ==
    [][ /\ \A id \in PoolIds :
             /\ pool'[id] \in {"idle", "running"}
             /\ Occurrences(idle_ids', id) = IF pool'[id] = "idle" THEN 1 ELSE 0
             /\ (pool[id] = "running" /\ pool'[id] = "idle") =>
                   (call'.op = "queue_completion" /\ call'.request = id)
             /\ (pool[id] = "idle" /\ pool'[id] = "running") =>
                   (call'.op = "AsyncInferQueueBase.start_async" /\ call'.started = id)
        /\ call'.op = "AsyncInferQueue.get_idle_request_id" =>
             /\ pool[call'.request] = "idle"
             /\ pool' = pool
        /\ call'.op = "AsyncInferQueueBase.start_async" =>
             /\ pool[call'.started] = "idle"
             /\ pool'[call'.started] = "running"
             /\ Running(pool') = Running(pool) \cup {call'.started}
        /\ Cardinality(Running(pool')) <= PoolSize
      ]_vars

\* C16 witness: a caller of start_async whose inputs went to request 0
\* started request 1, because another caller started request 0 in between;
\* now all requests of the queue are running.
C16_Witness ==
    /\ call.op = "AsyncInferQueueBase.start_async"
    /\ call.request = 0
    /\ call.started = 1
    /\ Running(pool) = PoolIds
    /\ idle_ids = <<>>

\* The partition identifiers of the executors reached through graph g.
GraphPartitionIds(g, subs, ex) == { ex[e].partition_id : e \in GraphExecutors(g, subs, ex) }

\* C18: the partitioned graph stored for a signature S stays as it was
\* stored: as long as S is in partitioned_modules, the executors reached
\* through partitioned_modules[S], and their partition identifiers, are
\* those of the partitioning stored for S, whatever is partitioned under
\* other signatures in between; a cache hit for S therefore runs exactly
\* them.
C18_StoredGraphUnchanged ==
    [][ \A S \in DOMAIN partitioned_modules :
          S \in DOMAIN partitioned_modules' =>
             /\ partitioned_modules'[S] = partitioned_modules[S]
             /\ GraphExecutors(partitioned_modules'[S], submodules', executors')
                  = GraphExecutors(partitioned_modules[S], submodules, executors)
             /\ GraphPartitionIds(partitioned_modules'[S], submodules', executors')
                  = GraphPartitionIds(partitioned_modules[S], submodules, executors)
             /\ (IsPartitionedCall(last') /\ last'.sig = S) =>
                   \A i \in 1..Len(last'.log) :
                       last'.log[i].e # 0 =>
                           last'.log[i].e \in GraphExecutors(partitioned_modules[S],
                                                             submodules, executors)
      ]_vars

\* The events of a raising native attempt.
RaiseEvents == {"compile_raise", "convert_raise", "invoke_raise"}

\* A native attempt of the executor e raised in log.
RaisedFor(log, e) == \E i \in 1..Len(log) : log[i].e = e /\ log[i].ev \in RaiseEvents

\* The executor e was in Fallback in the heap ex.
WasFallback(e, ex) == e <= Len(ex) /\ ex[e].perm_fallback

\* C19: an executor is in Fallback only if one of its own earlier native
\* attempts raised: a freshly created executor is Active (its first call
\* makes a native attempt), an executor enters Fallback only in a call in
\* which its own native attempt raises, and a call to an Active executor
\* whose native attempt succeeds makes that attempt, leaves the executor
\* Active and returns the native result without invoking the original
\* sub-graph.
C19_FallbackOnlyAfterOwnFailure ==
    [][ /\ \A e \in 1..Len(executors') :
             /\ executors'[e].perm_fallback => e \in raised'
             /\ (executors'[e].perm_fallback /\ ~WasFallback(e, executors)) =>
                    RaisedFor(last'.log, e)
        /\ \A i \in 1..Len(last'.log) :
             LET e == last'.log[i].e
             IN  /\ last'.log[i].ev = "call_fallback" => WasFallback(e, executors)
                 /\ (last'.log[i].ev \in {"call_native", "call_fallback"}
                       /\ ~WasFallback(e, executors)) =>
                        /\ last'.log[i].ev = "call_native"
                        /\ last'.log[i + 1].ev \in {"compile", "cache_hit"}
                        /\ last'.log[i + 1].e = e
                 /\ (last'.log[i].ev = "call_native" /\ ~RaisedFor(last'.log, e)) =>
                        /\ ~executors'[e].perm_fallback
                        /\ last'.log[i + 2] = Ev("invoke", e, executors'[e].partition_id)
                        /\ last'.log[i + 3].ev = "exit" /\ last'.log[i + 3].e = e
                        /\ last'.log[i + 3].out.kind = "ret"
                        /\ last'.log[i + 3].out.res.by = "ov"
                        /\ last'.log[i + 3].out.res.pid = executors'[e].partition_id
                        /\ last'.log[i + 3].out.res.mod = executors'[e].gm
      ]_vars

\* C19 witness: an executor none of whose native attempts ever raised was
\* called once more, made a native attempt and returned the native result,
\* while another executor of the same graph is in Fallback.
C19_Witness ==
    \E i \in 1..Len(last.log) :
        LET e == last.log[i].e
        IN  /\ last.log[i].ev = "call_native"
            /\ e \notin raised
            /\ last.log[i + 1].ev = "cache_hit"
            /\ last.log[i + 3].ev = "exit"
            /\ last.log[i + 3].out.res.by = "ov"
            /\ ~executors[e].perm_fallback
            /\ \E f \in 1..Len(executors) : executors[f].perm_fallback

\* ------------------------------------------- partition_graph on its own
\* Largest value the partition counter may reach when partition_graph is
\* run on its own.
MaxCounter == 4

\* partition_graph(gm, use_python_fusion_cache, model_hash_str) called on
\* the graph g with the configuration of params, as the cache-miss branch
\* of openvino_execute_partitioned calls it.
PartitionGraph(g, params) ==
    LET ep == OrDefault(params)
        p == partition_graph(g, GetUseCache(ep), GetModelHash(ep),
                             submodules, executors, max_openvino_partitions)
    IN  /\ p.mx <= MaxCounter
        /\ submodules' = p.subs
        /\ executors' = p.ex
        /\ max_openvino_partitions' = p.mx
        /\ last' = Op("partition_graph", "", <<>>, g, <<>>, TopRet(<<>>))
        /\ UNCHANGED <<compiled_cache, partitioned_modules, raised, seen, cleared>>
        /\ UNCHANGED outsideCaches

NextPartition == \E g \in Graphs, params \in ParamChoices : PartitionGraph(g, params)

SpecPartition == Init /\ [][NextPartition]_vars

\* The number of call_module nodes with 'fused_' in their name before
\* position i of the graph g.
FusedBefore(g, i) ==
    Cardinality({ j \in 1..(i - 1) :
                    Nodes(g)[j].op = "call_module" /\ ContainsFused(Nodes(g)[j].name) })

\* C20: one partition_graph call replaces, in graph order, exactly the
\* call_module nodes whose name contains 'fused_' by a new Active executor
\* wrapping the node's sub-module, and leaves everything else untouched; the
\* k-th replaced node (k from 0) gets identifier c+k, c being
\* max_openvino_partitions at entry, and at exit max_openvino_partitions is
\* c plus the number of replaced nodes (unchanged without a fusible node).
C20_PartitionGraphReplacesFusedNodes ==
    [][ last'.op = "partition_graph" =>
          LET g == last'.callee
              c == max_openvino_partitions
              nodes == Nodes(g)
              replaced == { i \in 1..Len(nodes) :
                              nodes[i].op = "call_module" /\ ContainsFused(nodes[i].name) }
          IN  /\ \A i \in replaced :
                    LET m == submodules'[g][nodes[i].target]
                    IN  /\ m.kind = "ov"
                        /\ m.ref = Len(executors) + FusedBefore(g, i) + 1
                        /\ executors'[m.ref].gm = submodules[g][nodes[i].target]
                        /\ executors'[m.ref].partition_id = c + FusedBefore(g, i)
                        /\ ~executors'[m.ref].perm_fallback
              /\ \A t \in Targets(g) :
                    (\A i \in replaced : nodes[i].target # t) =>
                        submodules'[g][t] = submodules[g][t]
              /\ \A h \in Graphs \ {g} : submodules'[h] = submodules[h]
              /\ \A e \in 1..Len(executors) : executors'[e] = executors[e]
              /\ Len(executors') = Len(executors) + Cardinality(replaced)
              /\ max_openvino_partitions' = c + Cardinality(replaced)
              /\ replaced = {} =>
                    /\ max_openvino_partitions' = max_openvino_partitions
                    /\ executors' = executors
                    /\ submodules' = submodules
      ]_vars

\* C20 witness: partition_graph ran on the graph with two fusible nodes (and
\* a call_module node and a placeholder it must leave alone) when the
\* counter was 1: the two executors got the identifiers 1 and 2.
C20_Witness ==
    /\ last.op = "partition_graph"
    /\ last.callee = "G2"
    /\ Len(executors) = 3
    /\ max_openvino_partitions = 3
    /\ submodules["G2"][<<"fused_", "0">>] = Ov(2)
    /\ submodules["G2"][<<"fused_", "1">>] = Ov(3)
    /\ executors[2].partition_id = 1
    /\ executors[3].partition_id = 2
    /\ submodules["G2"][<<"conv">>] = Raw("G2", <<"conv">>)

\* The entries compiled_cache gained or changed between cc and cc1.
Written(cc, cc1) == { P \in DOMAIN cc1 : P \notin DOMAIN cc \/ cc1[P] # cc[P] }

\* The native attempt that compiles at position i of log belongs to a call
\* of an executor that was Active, for that executor's own identifier.
InOwnNativeAttempt(log, i, exBefore, exAfter) ==
    /\ i > 1
    /\ log[i - 1].ev = "call_native"
    /\ log[i - 1].e = log[i].e
    /\ log[i].e \in 1..Len(exAfter)
    /\ exAfter[log[i].e].partition_id = log[i].pid
    /\ ~WasFallback(log[i].e, exBefore)

\* Compilation happens only inside native attempts: every openvino_compile
\* call and every write to compiled_cache belongs to a native attempt of an
\* Active executor, for its own identifier; a step that only partitions
\* (no executor makes a native attempt) leaves compiled_cache unchanged.
CompiledOnlyInNativeAttempts ==
    /\ \A i \in 1..Len(last'.log) :
          last'.log[i].ev = "compile" =>
              InOwnNativeAttempt(last'.log, i, executors, executors')
    /\ \A P \in Written(compiled_cache, compiled_cache') :
          \E i \in 1..Len(last'.log) :
              /\ Stored(last'.log, i)
              /\ last'.log[i].pid = P
              /\ compiled_cache'[P].gm = executors'[last'.log[i].e].gm
    /\ \A P \in DOMAIN compiled_cache' \ DOMAIN compiled_cache :
          \E e \in 1..Len(executors') : executors'[e].partition_id = P
    /\ (IsPartitionedCall(last') /\ ~Has(last'.log, "call_native")) =>
          compiled_cache' = compiled_cache
    /\ Has(last'.log, "partition_graph") =>
          /\ last'.log[1].ev = "partition_graph"
          /\ \A i \in 1..Len(last'.log) : last'.log[i].ev = "compile" => i > 2

\* C21 as stated: compiled artifacts are created lazily, and compiled_cache
\* gains or changes an entry only during the first execution of a partition
\* (a native attempt of an Active executor that finds no entry for its
\* identifier), and only for that executor's own partition identifier.
C21_CompiledOnlyAtFirstExecution ==
    [][ /\ CompiledOnlyInNativeAttempts
        /\ \A i \in 1..Len(last'.log) :
              Stored(last'.log, i) => last'.log[i].pid \notin DOMAIN compiled_cache
      ]_vars

\* C21 amended: partition_graph and a partition-cache miss by themselves
\* never invoke openvino_compile and leave compiled_cache unchanged;
\* compiled_cache is written only during a native attempt of an Active
\* executor and only for that executor's own partition identifier: when
\* use_python_fusion_cache is enabled only while compiled_cache holds no
\* entry for that identifier (the first execution of the partition, or its
\* first since clear_caches emptied the cache), at every native attempt
\* when it is disabled.
C21_CompiledOnlyInNativeAttempts ==
    [][ /\ CompiledOnlyInNativeAttempts
        /\ \A i \in 1..Len(last'.log) :
              Stored(last'.log, i) =>
                  \/ last'.log[i].pid \notin DOMAIN compiled_cache
                  \/ ~UsesCache(last'.log[i].e, executors')
      ]_vars

\* C21 witness: a call partitioned the graph with two fusible nodes; the
\* first executor fell back to a raising sub-graph, so the second one was
\* created but made no native attempt and has no artifact.
C21_Witness ==
    /\ IsPartitionedCall(last)
    /\ Has(last.log, "partition_graph")
    /\ last.callee = "G2"
    /\ last.out.kind = "raise"
    /\ \E e \in 1..Len(executors) :
          /\ executors[e].partition_id \notin DOMAIN compiled_cache
          /\ \A i \in 1..Len(last.log) : last.log[i].e # e

\* ------------------------------------------------- signature computation
\* The argument lists the two compared calls are drawn from: no argument,
\* tensors that differ in shape, in contents or in type, tensors with a
\* non-tensor beside them, and str arguments.
SignatureArgs ==
    { <<>>,
      ArgsA,
      ArgsB,
      ArgsS,
      <<[Tensor(ShapeA) EXCEPT !.val = 1]>>,
      <<[Tensor(ShapeA) EXCEPT !.type = <<"torch.", "IntTensor">>]>>,
      <<Scalar(1), Tensor(ShapeA)>>,
      <<Str("x"), Scalar(5)>>,
      <<Str("x)_1:int:val(5")>> }

\* The calls compared: a graph module with an argument list.
SignatureCalls == {"G1", "G2"} \X SignatureArgs

\* Two calls of openvino_execute_partitioned are about to compute their
\* signatures.
SignatureInit ==
    /\ CachesInit
    /\ ThreadsInit
    /\ AdapterIdle
    /\ BindingInit
    /\ calls \in SignatureCalls \X SignatureCalls
    /\ signatures = <<NoSignature, NoSignature>>

\* Lines 144-149 in call k: the signature of (gm, args).
ComputeSignature(k) ==
    /\ ~signatures[k].computed
    /\ signatures' = [signatures EXCEPT
                         ![k] = [computed |-> TRUE,
                                 text |-> Signature(calls[k][1], calls[k][2])]]
    /\ UNCHANGED <<calls, cacheVars, threadVars, adapterVars, bindingVars>>

NextSignature == \E k \in 1..2 : ComputeSignature(k)

SpecSignature == SignatureInit /\ [][NextSignature]_vars

\* Both calls have computed their signatures.
BothComputed == signatures[1].computed /\ signatures[2].computed

\* Two arguments with the same type tag and the same shape (tensors) or the
\* same literal value (non-tensors).
ArgsAgree(a, b) ==
    /\ a.kind = b.kind
    /\ a.type = b.type
    /\ IF a.kind = "tensor" THEN a.size = b.size ELSE a.val = b.val

\* Two calls on the same graph object whose arguments agree in count and, per
\* position, in type and shape or value.
CallsAgree(c, d) ==
    /\ c[1] = d[1]
    /\ Len(c[2]) = Len(d[2])
    /\ \A i \in 1..Len(c[2]) : ArgsAgree(c[2][i], d[2][i])

\* Some position holds a tensor in one of the calls and the two arguments
\* there differ in type or in shape.
TensorsDiffer(c, d) ==
    \E i \in 1..Len(c[2]) :
        /\ i <= Len(d[2])
        /\ c[2][i].kind = "tensor" \/ d[2][i].kind = "tensor"
        /\ c[2][i].type # d[2][i].type \/ c[2][i].size # d[2][i].size

\* Two calls that differ in graph identity, in argument count, or in the
\* type or shape of a tensor argument.
CallsDiffer(c, d) ==
    \/ c[1] # d[1]
    \/ Len(c[2]) # Len(d[2])
    \/ TensorsDiffer(c, d)

\* C22: the signature is a function of the graph object's identity and, per
\* position, of the argument's type tag and shape (tensors) or literal value
\* (non-tensors): two calls that agree in these get the same signature
\* whatever the tensor contents, and two calls that differ in graph
\* identity, in argument count, or in the type or shape of a tensor argument
\* get different signatures.
C22_SignatureIdentifiesCall ==
    BothComputed =>
        /\ CallsAgree(calls[1], calls[2]) => signatures[1].text = signatures[2].text
        /\ CallsDiffer(calls[1], calls[2]) => signatures[1].text # signatures[2].text

\* The native attempt that raised at position i of log had compiled its
\* artifact itself: openvino_compile returned and line 78 stored the result.
CompiledInAttempt(log, i) ==
    \E j \in 1..(i - 1) : Stored(log, j) /\ log[j].e = log[i].e /\ log[j].pid = log[i].pid

\* C23: failure leaves the artifact cache consistent.  When openvino_compile
\* raises during a native attempt for partition P, compiled_cache is as it
\* was before the attempt: no entry for P is added and an entry P had is
\* kept as it was.  When compilation succeeds and the conversion of the
\* inputs or the artifact invocation raises afterwards, the entry for P
\* stays in compiled_cache although the executor is now in Fallback.
C23_FailureKeepsCacheConsistent ==
    [][ /\ \A i \in 1..Len(last'.log) :
             LET e == last'.log[i].e
                 P == last'.log[i].pid
             IN  /\ last'.log[i].ev = "compile_raise" =>
                        /\ P \in DOMAIN compiled_cache' <=> P \in DOMAIN compiled_cache
                        /\ P \in DOMAIN compiled_cache => compiled_cache'[P] = compiled_cache[P]
                        /\ executors'[e].perm_fallback
                 /\ ( /\ last'.log[i].ev \in {"invoke_raise", "convert_raise"}
                      /\ CompiledInAttempt(last'.log, i) ) =>
                        /\ P \in DOMAIN compiled_cache'
                        /\ compiled_cache'[P].gm = executors'[e].gm
                        /\ executors'[e].perm_fallback
        /\ ( /\ IsPartitionedCall(last')
             /\ \A i \in 1..Len(last'.log) : ~Stored(last'.log, i) ) =>
                compiled_cache' = compiled_cache
      ]_vars

\* C23 witness: in one call the compilation of one partition failed and left
\* no entry for it, and the artifact of another partition was compiled,
\* stored and then raised when invoked; both executors are in fallback.
C23_Witness ==
    \E i, j \in 1..Len(last.log) :
        /\ last.log[i].ev = "compile_raise"
        /\ last.log[i].pid \notin DOMAIN compiled_cache
        /\ executors[last.log[i].e].perm_fallback
        /\ last.log[j].ev = "invoke_raise"
        /\ CompiledInAttempt(last.log, j)
        /\ last.log[j].pid \in DOMAIN compiled_cache
        /\ executors[last.log[j].e].perm_fallback

\* The executor_parameters an executor holds when the call that creates it
\* was made with the executor_parameters p (lines 134-142 and 94-97).
Captured(p) ==
    [none |-> FALSE,
     use_python_fusion_cache |-> GetUseCache(OrDefault(p)),
     model_hash_str |-> GetModelHash(OrDefault(p))]

\* The model_hash_str the executor self passes to openvino_compile.
HashOf(self) ==
    IF self.executor_parameters.model_hash_str # "None"
    THEN <<self.executor_parameters.model_hash_str, ToString(self.partition_id)>>
    ELSE <<>>

\* What openvino_execute_partitioned does up to the cache lookup when it is
\* called in the current state as gm(*args) with the executor_parameters p.
StageOf(c, p) ==
    PartitionStage(c[1], c[2], p, partitioned_modules, submodules, executors,
                   max_openvino_partitions)

\* Whatever call comes next, its signature is the same for every
\* configuration; on a hit the call does the same for every configuration;
\* it leaves the existing executors as they are and gives the executors it
\* creates the values of its own configuration.
ConfigurationOnlyAtMiss ==
    \A c \in CallChoices, p \in ParamChoices :
        LET st == StageOf(c, p)
        IN  /\ st.signature = StageOf(c, NoneParams).signature
            /\ ~st.miss => st = StageOf(c, NoneParams)
            /\ \A e \in 1..Len(executors) : st.ex[e] = executors[e]
            /\ \A e \in (Len(executors) + 1)..Len(st.ex) :
                  st.ex[e].executor_parameters = Captured(p)

\* A call changes the configuration of no executor, the executors it
\* creates hold the configuration of one call, and each native attempt
\* looks up, compiles and labels with the values of its own executor.
ExecutorsKeepConfiguration ==
    /\ \A e \in 1..Len(executors) :
          executors'[e].executor_parameters = executors[e].executor_parameters
    /\ \E p \in ParamChoices :
          \A e \in (Len(executors) + 1)..Len(executors') :
              executors'[e].executor_parameters = Captured(p)
    /\ ~Has(last'.log, "partition_graph") => Len(executors') = Len(executors)
    /\ \A i \in 1..Len(last'.log) :
          LET e == last'.log[i].e
          IN  /\ last'.log[i].ev = "cache_hit" => UsesCache(e, executors')
              /\ ( /\ last'.log[i].ev = "compile"
                   /\ last'.log[i].pid \in DOMAIN compiled_cache ) =>
                     ~UsesCache(e, executors')
              /\ Stored(last'.log, i) =>
                     compiled_cache'[last'.log[i].pid].model_hash_str = HashOf(executors'[e])

\* C24: the configuration is captured only at partitioning time.  A call
\* that hits the partition cache does what it would do with any other
\* executor_parameters; no call changes the executor_parameters of an
\* existing executor; the executors a call creates hold the
\* use_python_fusion_cache and model_hash_str of that call, and every native
\* attempt looks up, compiles and labels with the values of its own
\* executor; the signature is the same whatever the configuration.
C24_ConfigurationCapturedAtPartitioning ==
    []ConfigurationOnlyAtMiss /\ [][ExecutorsKeepConfiguration]_vars

\* C24 witness: a call hit the partition cache and its executor, created
\* with use_python_fusion_cache False and a model hash, compiled again
\* although its partition had an artifact, and labelled the new artifact
\* with its own hash.
C24_Witness ==
    /\ IsPartitionedCall(last)
    /\ ~Has(last.log, "partition_graph")
    /\ \E i \in 1..Len(last.log) :
          /\ Stored(last.log, i)
          /\ \E j \in 1..(i - 1) : last.log[j].ev = "call_native" /\ last.log[j].e = last.log[i].e
          /\ executors[last.log[i].e].executor_parameters = Captured(CustomParams)
          /\ compiled_cache[last.log[i].pid].model_hash_str
                = <<"h", ToString(last.log[i].pid)>>
          /\ \E e \in 1..Len(executors) : executors[e].executor_parameters = Captured(NoneParams)

\* The partition identifiers handed out so far.
AssignedIds == 0..(max_openvino_partitions - 1)

\* Every key of compiled_cache and every executor's partition_id is an
\* identifier handed out so far.
IdsInRange ==
    /\ DOMAIN compiled_cache \subseteq AssignedIds
    /\ \A e \in 1..Len(executors) : executors[e].partition_id \in AssignedIds


\* Some executor with the identifier P made a native attempt during the
\* call logged in log.
AttemptedFor(log, P, ex) ==
    \E i \in 1..Len(log) :
        /\ log[i].ev = "call_native"
        /\ log[i].pid = P
        /\ ex[log[i].e].partition_id = P

\* C25: in every state reached by calls of openvino_execute_partitioned and
\* clear_caches made one after the other, every key of compiled_cache and
\* every executor's partition_id is in 0 .. max_openvino_partitions - 1, and
\* every key of compiled_cache is the partition_id of an executor that made
\* a native attempt since the last clear_caches: clear_caches leaves no key,
\* and a key a call leaves was there before the call or belongs to an
\* executor that made a native attempt during it.
C25_KeysBelongToAttemptingExecutors ==
    [][ /\ IdsInRange
        /\ IdsInRange'
        /\ last'.op = "clear_caches" => DOMAIN compiled_cache' = {}
        /\ \A P \in DOMAIN compiled_cache' :
              \/ last'.op # "clear_caches" /\ P \in DOMAIN compiled_cache
              \/ AttemptedFor(last'.log, P, executors')
      ]_vars

\* C25 witness: after a clear_caches a call left an artifact for the
\* partition 1 alone; the executor of partition 0 exists and has made no
\* native attempt since.
C25_Witness ==
    /\ cleared # {}
    /\ IsPartitionedCall(last)
    /\ DOMAIN compiled_cache = {1}
    /\ AttemptedFor(last.log, 1, executors)
    /\ \E e \in 1..Len(executors) : executors[e].partition_id = 0
    /\ max_openvino_partitions >= 2

====
